---- MODULE Spec2Model ----
(***************************************************************************)
(* Model of MetagenomeScope's viewer-side collapsible graph:               *)
(*   - Drawer (metagenomescope/support_files/js/drawer.js): draw,          *)
(*     initPatterns, collapsePattern, uncollapsePattern;                   *)
(*   - DataHolder (docs/demos/marygold/js/data-holder.js): the data the    *)
(*     Drawer reads.                                                       *)
(* The Cytoscape.js instance the Drawer drives is modelled by its element  *)
(* pool: nodes (basic nodes and patterns), edges, their data, classes and  *)
(* removed flags, with add / remove / restore / move as the library does   *)
(* them (remove cascades to descendants and connected edges, restore puts  *)
(* back only the elements of the calling collection).                      *)
(* Five specifications: Spec, the Drawer under draw, collapsePattern and   *)
(* uncollapsePattern; Bulk, Spec with collapseAll and expandAll; Calls, a  *)
(* DataHolder over any of the data explored and one call of one of its     *)
(* methods; Renders, one call of renderNode or of                          *)
(* convertCtrlPtsToDistsAndWeights; Builds, one run of the pattern         *)
(* hierarchy builder that orders the patterns of the data.                 *)
(***************************************************************************)
EXTENDS Integers, Sequences, FiniteSets, TLC

\* JS null (a parent_id of null; this.cy before the first draw)
NULL == -1

\* ------------------------------------------------------------------ bounds
\* longest componentsToDraw array handed to draw()
MaxDrawLen == 2
\* deepest nesting of open render batches explored (a failed operation
\* leaves its batch open, so the depth could grow without limit)
MaxBatchDepth == 2

\* ------------------------------------------------------------- generic
RECURSIVE SeqToSet(_)
SeqToSet(s) == IF s = <<>> THEN {} ELSE {Head(s)} \cup SeqToSet(Tail(s))

RECURSIVE FlatSeq(_)
\* concatenation of a sequence of sequences
FlatSeq(ss) == IF ss = <<>> THEN <<>> ELSE Head(ss) \o FlatSeq(Tail(ss))

RECURSIVE SortedSeq(_)
\* the elements of a set of integers in ascending order (JS iterates an
\* Object's integer-like keys in ascending numeric order)
SortedSeq(S) ==
    IF S = {} THEN <<>>
    ELSE LET m == CHOOSE x \in S : \A y \in S : x <= y
         IN  <<m>> \o SortedSeq(S \ {m})

\* ------------------------------------------------------------------- data
\* this.CTRL_PT_DIST_EPSILON
CTRL_PT_DIST_EPSILON == 5

\* One node record of the data JSON (nodeVals): name, orientation, parent_id
\* and layout position.
NodeVals(name, orientation, parent, x, y) ==
    [x |-> x, y |-> y, name |-> name, orientation |-> orientation,
     parent_id |-> parent]

\* One pattern record of the data JSON (pattVals).
PattVals(id, parent, type) ==
    [parent_id |-> parent, pattern_id |-> id, pattern_type |-> type]

\* One edge record of the data JSON (edgeVals): control points
\* [x1, y1, x2, y2, ...].
EdgeVals(ctrlPts) == [ctrl_pt_coords |-> ctrlPts]

\* Component 1: two sibling patterns (chain 10 = {1, 2}, bubble 11 = {3, 4})
\* and the ungrouped node 5; a boundary edge between the two patterns, a
\* self-loop on a member, curved and straight edges.
Component1 ==
    [skipped |-> FALSE,
     patts |-> << PattVals(10, NULL, "chain"), PattVals(11, NULL, "bubble") >>,
     nodes |-> ( 1 :> NodeVals("ctg_a", "+", 10, 100, 0)
              @@ 2 :> NodeVals("ctg_b", "-", 10, 200, 0)
              @@ 3 :> NodeVals("ctg_c", "+", 11, 300, 0)
              @@ 4 :> NodeVals("ctg_d", "+", 11, 400, 0)
              @@ 5 :> NodeVals("ctg_e", "-", NULL, 500, 0) ),
     edges |-> ( 1 :> ( 2 :> EdgeVals(<<150, 0>>) )
              @@ 2 :> ( 2 :> EdgeVals(<<>>) @@ 3 :> EdgeVals(<<250, 30>>) )
              @@ 3 :> ( 4 :> EdgeVals(<<350, 2>>) )
              @@ 4 :> ( 5 :> EdgeVals(<<450, 20>>) )
              @@ 5 :> ( 1 :> EdgeVals(<<300, 40>>) ) ),
     bb |-> <<600, 100>>]

\* Component 2: a nested pattern (20 contains node 6 and pattern 21, which
\* contains nodes 7 and 8) and the ungrouped node 9.
Component2 ==
    [skipped |-> FALSE,
     patts |-> << PattVals(20, NULL, "chain"), PattVals(21, 20, "bubble") >>,
     nodes |-> ( 6 :> NodeVals("ctg_f", "+", 20, 100, 0)
              @@ 7 :> NodeVals("ctg_g", "+", 21, 200, 0)
              @@ 8 :> NodeVals("ctg_h", "-", 21, 300, 0)
              @@ 9 :> NodeVals("ctg_i", "+", NULL, 400, 0) ),
     edges |-> ( 6 :> ( 7 :> EdgeVals(<<150, 10>>) )
              @@ 7 :> ( 8 :> EdgeVals(<<250, 0>>) )
              @@ 8 :> ( 9 :> EdgeVals(<<350, 0>>) )
              @@ 9 :> ( 7 :> EdgeVals(<<300, 50>>) ) ),
     bb |-> <<500, 100>>]

\* Component 3: data with an invalid node orientation (node 32).
Component3 ==
    [skipped |-> FALSE,
     patts |-> << PattVals(30, NULL, "frayedrope") >>,
     nodes |-> ( 31 :> NodeVals("ctg_j", "+", 30, 100, 0)
              @@ 32 :> NodeVals("ctg_k", "?", 30, 200, 0) ),
     edges |-> ( 31 :> ( 32 :> EdgeVals(<<150, 0>>) ) ),
     bb |-> <<300, 100>>]

\* Component 4: a component that was too large to lay out; only the skipped
\* marker is stored for it.
Component4 ==
    [skipped |-> TRUE, patts |-> <<>>, nodes |-> <<>>, edges |-> <<>>,
     bb |-> <<>>]

\* Component 5: the other strand of contigs of component 1; its nodes
\* carry names that component 1 carries too.
Component5 ==
    [skipped |-> FALSE,
     patts |-> << PattVals(40, NULL, "chain") >>,
     nodes |-> ( 41 :> NodeVals("ctg_a", "-", 40, 100, 0)
              @@ 42 :> NodeVals("ctg_b", "+", 40, 200, 0)
              @@ 43 :> NodeVals("ctg_l", "+", NULL, 300, 0) ),
     edges |-> ( 42 :> ( 41 :> EdgeVals(<<150, 0>>) )
              @@ 41 :> ( 43 :> EdgeVals(<<250, 0>>) ) ),
     bb |-> <<400, 100>>]

\* Component 6: a component marked as skipped whose elements are in the data
\* all the same.
Component6 ==
    [skipped |-> TRUE,
     patts |-> << PattVals(12, NULL, "bubble") >>,
     nodes |-> ( 61 :> NodeVals("ctg_m", "+", 12, 100, 0)
              @@ 62 :> NodeVals("ctg_n", "+", 12, 200, 0) ),
     edges |-> ( 61 :> ( 62 :> EdgeVals(<<150, 0>>) ) ),
     bb |-> <<300, 100>>]

\* Component 7: a component whose node ids start again from 1 (an id is
\* unique within its component): node 1 is the source of an edge here too
Component7 ==
    [skipped |-> FALSE,
     patts |-> <<>>,
     nodes |-> ( 1 :> NodeVals("ctg_p", "+", NULL, 100, 0)
              @@ 71 :> NodeVals("ctg_r", "+", NULL, 200, 0) ),
     edges |-> ( 1 :> ( 71 :> EdgeVals(<<150, 40>>) ) ),
     bb |-> <<300, 100>>]

\* this.data of the DataHolder the Drawer draws from
data == [components |-> << Component1, Component2, Component3, Component4 >>]

\* --------------------------------------------------------------- DataHolder
\* The methods take dh, the DataHolder's this.data. A method that can throw
\* yields [threw |-> the Error ("none" if it returned), value |-> what it
\* returned].

\* A JavaScript number handed over as a size rank: the integer n, or a
\* number strictly between n and n + 1.
Whole(n) == [floor |-> n, isInteger |-> TRUE]
Between(n) == [floor |-> n, isInteger |-> FALSE]

\* v > 0
GreaterThanZero(v) == v.floor > 0 \/ (v.floor = 0 /\ ~v.isInteger)

\* v <= n, n an integer
AtMost(v, n) == v.floor < n \/ (v.floor = n /\ v.isInteger)

Returned(v) == [threw |-> "none", value |-> v]
Threw(e) == [threw |-> e, value |-> NULL]

\* DataHolder.numComponents
numComponents(dh) == Len(dh.components)

\* validateComponentRank without the Number.isInteger test
AcceptFractions(dh, sizeRank) ==
    IF GreaterThanZero(sizeRank)
    THEN IF AtMost(sizeRank, Len(dh.components))
         THEN Returned(TRUE)
         ELSE Threw("SizeRankTooLarge")
    ELSE Threw("SizeRankNotPositiveInteger")

\* DataHolder.validateComponentRank
validateComponentRank(dh, sizeRank) ==
    IF GreaterThanZero(sizeRank) /\ sizeRank.isInteger
    THEN IF AtMost(sizeRank, Len(dh.components))
         THEN Returned(TRUE)
         ELSE Threw("SizeRankTooLarge")
    ELSE Threw("SizeRankNotPositiveInteger")

\* DataHolder.getPatternsInComponent
getPatternsInComponent(dh, sizeRank) ==
    IF validateComponentRank(dh, sizeRank).threw # "none"
    THEN validateComponentRank(dh, sizeRank)
    ELSE Returned(dh.components[sizeRank.floor].patts)

\* DataHolder.getNodesInComponent
getNodesInComponent(dh, sizeRank) ==
    IF validateComponentRank(dh, sizeRank).threw # "none"
    THEN validateComponentRank(dh, sizeRank)
    ELSE Returned(dh.components[sizeRank.floor].nodes)

\* DataHolder.getEdgesInComponent
getEdgesInComponent(dh, sizeRank) ==
    IF validateComponentRank(dh, sizeRank).threw # "none"
    THEN validateComponentRank(dh, sizeRank)
    ELSE Returned(dh.components[sizeRank.floor].edges)

\* DataHolder.getComponentBoundingBox; <<>> stands for undefined
getComponentBoundingBox(dh, sizeRank) ==
    IF validateComponentRank(dh, sizeRank).threw # "none"
    THEN validateComponentRank(dh, sizeRank)
    ELSE Returned(dh.components[sizeRank.floor].bb)

RECURSIVE ZeroIndexedFrom(_, _)
ZeroIndexedFrom(dh, i) ==
    IF i > Len(dh.components) THEN Threw("NoComponentsLaidOut")
    ELSE IF ~dh.components[i].skipped THEN Returned(i - 1)
    ELSE ZeroIndexedFrom(dh, i + 1)

\* smallestViewableComponent returning the index in this.data.components
ZeroIndexed(dh) == ZeroIndexedFrom(dh, 1)

RECURSIVE smallestViewableComponentFrom(_, _)
\* the loop of smallestViewableComponent; i counts the components from 1,
\* which is the rank returned
smallestViewableComponentFrom(dh, i) ==
    IF i > Len(dh.components) THEN Threw("NoComponentsLaidOut")
    ELSE IF ~dh.components[i].skipped THEN Returned(i)
    ELSE smallestViewableComponentFrom(dh, i + 1)

\* DataHolder.smallestViewableComponent
smallestViewableComponent(dh) == smallestViewableComponentFrom(dh, 1)

RECURSIVE getAllLaidOutComponentRanksFrom(_, _, _)
\* the loop of getAllLaidOutComponentRanks
getAllLaidOutComponentRanksFrom(dh, i, laidOutRanks) ==
    IF i > Len(dh.components) THEN laidOutRanks
    ELSE getAllLaidOutComponentRanksFrom(dh, i + 1,
             IF ~dh.components[i].skipped THEN Append(laidOutRanks, i)
             ELSE laidOutRanks)

\* DataHolder.getAllLaidOutComponentRanks
getAllLaidOutComponentRanks(dh) == getAllLaidOutComponentRanksFrom(dh, 1, <<>>)

RECURSIVE SkippedToo(_, _, _)
SkippedToo(dh, queryName, i) ==
    IF i > Len(dh.components) THEN 0 - 1
    ELSE IF \E nodeID \in DOMAIN dh.components[i].nodes :
                dh.components[i].nodes[nodeID].name = queryName
    THEN i
    ELSE SkippedToo(dh, queryName, i + 1)

\* findComponentContainingNodeName searching the skipped components too
AmongAllComponents(dh, queryName) == SkippedToo(dh, queryName, 1)

RECURSIVE findComponentContainingNodeNameFrom(_, _, _)
\* _.findIndex over this.data.components with _.some over cmp.nodes; i
\* counts the components from 1, so a match at i is matchingCmpIdx + 1
findComponentContainingNodeNameFrom(dh, queryName, i) ==
    IF i > Len(dh.components) THEN 0 - 1
    ELSE IF /\ ~dh.components[i].skipped
            /\ \E nodeID \in DOMAIN dh.components[i].nodes :
                   dh.components[i].nodes[nodeID].name = queryName
    THEN i
    ELSE findComponentContainingNodeNameFrom(dh, queryName, i + 1)

\* DataHolder.findComponentContainingNodeName
findComponentContainingNodeName(dh, queryName) ==
    findComponentContainingNodeNameFrom(dh, queryName, 1)

\* getNodeInfo returning null for a node that is not in the data
SilentWhenAbsent(dh, nodeID) ==
    IF \E i \in DOMAIN dh.components :
           ~dh.components[i].skipped /\ nodeID \in DOMAIN dh.components[i].nodes
    THEN LET i == CHOOSE i \in DOMAIN dh.components :
                      /\ ~dh.components[i].skipped
                      /\ nodeID \in DOMAIN dh.components[i].nodes
         IN  Returned(dh.components[i].nodes[nodeID])
    ELSE Returned(NULL)

RECURSIVE getNodeInfoFrom(_, _, _)
\* the loop of getNodeInfo, from component i on
getNodeInfoFrom(dh, nodeID, i) ==
    IF i > Len(dh.components) THEN Threw("NodeNotFound")
    ELSE IF ~dh.components[i].skipped /\ nodeID \in DOMAIN dh.components[i].nodes
    THEN Returned(dh.components[i].nodes[nodeID])
    ELSE getNodeInfoFrom(dh, nodeID, i + 1)

\* DataHolder.getNodeInfo
getNodeInfo(dh, nodeID) == getNodeInfoFrom(dh, nodeID, 1)

RECURSIVE getNodeNameFrom(_, _, _)
\* the loop of getNodeName, from component i on
getNodeNameFrom(dh, nodeID, i) ==
    IF i > Len(dh.components) THEN Threw("NodeNotFound")
    ELSE IF ~dh.components[i].skipped /\ nodeID \in DOMAIN dh.components[i].nodes
    THEN Returned(dh.components[i].nodes[nodeID].name)
    ELSE getNodeNameFrom(dh, nodeID, i + 1)

\* DataHolder.getNodeName
getNodeName(dh, nodeID) == getNodeNameFrom(dh, nodeID, 1)

RECURSIVE getEdgeInfoFrom(_, _, _, _)
\* the loop of getEdgeInfo, from component i on
getEdgeInfoFrom(dh, srcID, tgtID, i) ==
    IF i > Len(dh.components) THEN Threw("EdgeNotFound")
    ELSE IF ~dh.components[i].skipped /\ srcID \in DOMAIN dh.components[i].edges
    THEN IF tgtID \in DOMAIN dh.components[i].edges[srcID]
         THEN Returned(dh.components[i].edges[srcID][tgtID])
         ELSE Threw("FoundSourceButNoEdgeToTarget")
    ELSE getEdgeInfoFrom(dh, srcID, tgtID, i + 1)

\* a getEdgeInfo that goes on to the next component when this one has the
\* source node without an edge to the target
SearchEveryComponent(dh, srcID, tgtID) ==
    LET later == { c \in DOMAIN dh.components :
                     /\ ~dh.components[c].skipped
                     /\ srcID \in DOMAIN dh.components[c].edges
                     /\ tgtID \in DOMAIN dh.components[c].edges[srcID] }
        first == CHOOSE c \in later : \A o \in later : c <= o
    IN  IF later # {}
        THEN Returned(dh.components[first].edges[srcID][tgtID])
        ELSE IF \E c \in DOMAIN dh.components :
                    /\ ~dh.components[c].skipped
                    /\ srcID \in DOMAIN dh.components[c].edges
        THEN Threw("FoundSourceButNoEdgeToTarget")
        ELSE Threw("EdgeNotFound")

\* DataHolder.getEdgeInfo
getEdgeInfo(dh, srcID, tgtID) == getEdgeInfoFrom(dh, srcID, tgtID, 1)

\* A String is the sequence of its characters.
Digits == {"0", "1", "2", "3", "4", "5", "6", "7", "8", "9"}

DigitValue ==
    ( "0" :> 0 @@ "1" :> 1 @@ "2" :> 2 @@ "3" :> 3 @@ "4" :> 4
      @@ "5" :> 5 @@ "6" :> 6 @@ "7" :> 7 @@ "8" :> 8 @@ "9" :> 9 )

\* utils.isValidInteger: the string is made of decimal digits only, and of
\* at least one
isValidInteger(strVal) ==
    strVal # <<>> /\ \A k \in DOMAIN strVal : strVal[k] \in Digits

RECURSIVE parseIntFrom(_, _)
parseIntFrom(strVal, n) ==
    IF strVal = <<>> \/ Head(strVal) \notin Digits THEN n
    ELSE parseIntFrom(Tail(strVal), 10 * n + DigitValue[Head(strVal)])

\* parseInt of a string that starts with a decimal digit
parseInt(strVal) == parseIntFrom(strVal, 0)

RECURSIVE getPatternInfoIn(_, _, _)
\* the inner loop of getPatternInfo, from pattern p of the component on:
\* the p it returns at, 0 when the loop ends without a return
getPatternInfoIn(patts, intID, p) ==
    IF p > Len(patts) THEN 0
    ELSE IF patts[p].pattern_id = intID THEN p
    ELSE getPatternInfoIn(patts, intID, p + 1)

RECURSIVE getPatternInfoFrom(_, _, _)
\* the outer loop of getPatternInfo, from component i on
getPatternInfoFrom(dh, intID, i) ==
    IF i > Len(dh.components) THEN Threw("PatternNotFound")
    ELSE IF /\ ~dh.components[i].skipped
            /\ getPatternInfoIn(dh.components[i].patts, intID, 1) # 0
    THEN Returned(dh.components[i].patts[
                      getPatternInfoIn(dh.components[i].patts, intID, 1)])
    ELSE getPatternInfoFrom(dh, intID, i + 1)

\* DataHolder.getPatternInfo
getPatternInfo(dh, pattID) ==
    IF isValidInteger(pattID)
    THEN getPatternInfoFrom(dh, parseInt(pattID), 1)
    ELSE Threw("PatternIDNotNonnegativeInteger")

\* ------------------------------------------------------------ program state
VARIABLES
    cyExists,          \* this.cy is not null
    cyNodes,           \* node elements created in this.cy: id -> element
    cyNodeSeq,         \* their ids in the order they were added
    cyEdges,           \* edge elements created in this.cy: id -> element
    cyEdgeSeq,         \* their ids in the order they were added
    batchDepth,        \* open startBatch() calls of this.cy
    numDrawnNodes,     \* this.numDrawnNodes
    numDrawnEdges,     \* this.numDrawnEdges
    numDrawnPatterns,  \* this.numDrawnPatterns
    lastError,         \* what the last Drawer call threw ("none" if it returned)
    lastOp,            \* the last Drawer call: <<name, argument>>
    visibleOnly,       \* history: every toggle since the last draw was made
                       \* on a pattern that was in the graph
    trip,              \* history: the collapse/uncollapse round trip in progress
    holder,            \* the components of this.data of the DataHolder whose
                       \* methods are called, each by its place in ComponentPool
    called             \* the last call of a DataHolder method or of a function
                       \* of the Drawer, with its arguments and its outcome

drawerVars == << cyExists, cyNodes, cyNodeSeq, cyEdges, cyEdgeSeq, batchDepth,
                 numDrawnNodes, numDrawnEdges, numDrawnPatterns, lastError,
                 lastOp, visibleOnly, trip >>

vars == << cyExists, cyNodes, cyNodeSeq, cyEdges, cyEdgeSeq, batchDepth,
           numDrawnNodes, numDrawnEdges, numDrawnPatterns, lastError, lastOp,
           visibleOnly, trip, holder, called >>

\* ------------------------------------------------- Cytoscape.js collections
\* A graph g is [n |-> node elements, ns |-> node ids in add order,
\*               e |-> edge elements, es |-> edge ids in add order].

\* ids of the nodes in the graph (not removed)
NodePool(g) == { i \in DOMAIN g.n : ~g.n[i].removed }

\* ids of the edges in the graph (not removed)
EdgePool(g) == { i \in DOMAIN g.e : ~g.e[i].removed }

\* a children() that also gives the children of the children
WithGrandchildren(g, p) ==
    SelectSeq(g.ns, LAMBDA i :
        /\ ~g.n[i].removed
        /\ \/ g.n[i].parent = p
           \/ /\ g.n[i].parent \in DOMAIN g.n
              /\ g.n[g.n[i].parent].parent = p)

\* node.children(): the nodes in the graph whose compound parent is p, in
\* the order they were added
Children(g, p) ==
    SelectSeq(g.ns, LAMBDA i : ~g.n[i].removed /\ g.n[i].parent = p)

\* nodes.incomers("edge"): for each node in turn, its edges in the graph
\* that point at it from another node
Incomers(g, nodeSeq) ==
    FlatSeq([ j \in 1..Len(nodeSeq) |->
        SelectSeq(g.es, LAMBDA i : /\ ~g.e[i].removed
                                   /\ g.e[i].target = nodeSeq[j]
                                   /\ g.e[i].source # nodeSeq[j]) ])

\* nodes.outgoers("edge")
Outgoers(g, nodeSeq) ==
    FlatSeq([ j \in 1..Len(nodeSeq) |->
        SelectSeq(g.es, LAMBDA i : /\ ~g.e[i].removed
                                   /\ g.e[i].source = nodeSeq[j]
                                   /\ g.e[i].target # nodeSeq[j]) ])

\* nodes.connectedEdges()
ConnectedEdges(g, nodeSet) ==
    { i \in EdgePool(g) : g.e[i].source \in nodeSet \/ g.e[i].target \in nodeSet }

\* a difference() that takes nothing out
KeepAll(s, other) == s

\* eles.difference(other), on sequences of ids
Difference(s, other) == SelectSeq(s, LAMBDA i : i \notin SeqToSet(other))

RECURSIVE WithDescendants(_, _)
\* the nodes eles.remove() takes out for the nodes in S: those in the graph,
\* and the children in the graph of every node taken out
WithDescendants(g, S) ==
    LET more == { i \in NodePool(g) : g.n[i].parent \in S } \ S
    IN  IF more = {} THEN S ELSE WithDescendants(g, S \cup more)

\* eles.remove(): takes the elements that are in the graph out of it, with
\* all descendants of the nodes and all edges connected to a removed node
Remove(g, nodeSet, edgeSet) ==
    LET rn == WithDescendants(g, nodeSet \cap NodePool(g))
        re == (edgeSet \cap EdgePool(g)) \cup ConnectedEdges(g, rn)
    IN  [g EXCEPT
           !.n = [ i \in DOMAIN g.n |->
                     IF i \in rn THEN [g.n[i] EXCEPT !.removed = TRUE] ELSE g.n[i] ],
           !.e = [ i \in DOMAIN g.e |->
                     IF i \in re THEN [g.e[i] EXCEPT !.removed = TRUE] ELSE g.e[i] ]]

\* eles.restore(): puts the removed elements of the calling collection (and
\* only those) back; nodes first. A node whose parent is not in the graph
\* loses its parent reference; an edge whose source or target is not in the
\* graph is not restored.
Restore(g, nodeSet, edgeSet) ==
    LET back == { i \in nodeSet : g.n[i].removed }
        pool == NodePool(g) \cup back
        n1   == [ i \in DOMAIN g.n |->
                    IF i \in back
                    THEN [g.n[i] EXCEPT
                            !.removed = FALSE,
                            !.parent = IF @ # NULL /\ @ \notin pool THEN NULL ELSE @]
                    ELSE g.n[i] ]
        e1   == [ i \in DOMAIN g.e |->
                    IF /\ i \in edgeSet
                       /\ g.e[i].removed
                       /\ g.e[i].source \in pool
                       /\ g.e[i].target \in pool
                    THEN [g.e[i] EXCEPT !.removed = FALSE]
                    ELSE g.e[i] ]
    IN  [g EXCEPT !.n = n1, !.e = e1]

\* cy.getElementById(id).move({source: id}) / move({target: id}) for an edge:
\* nothing happens when the edge or the new endpoint is not in the graph
MoveSource(g, edgeID, nodeID) ==
    IF edgeID \in EdgePool(g) /\ nodeID \in NodePool(g)
    THEN [g EXCEPT !.e[edgeID].source = nodeID]
    ELSE g

MoveTarget(g, edgeID, nodeID) ==
    IF edgeID \in EdgePool(g) /\ nodeID \in NodePool(g)
    THEN [g EXCEPT !.e[edgeID].target = nodeID]
    ELSE g

\* the graph held in the state variables
Graph == [n |-> cyNodes, e |-> cyEdges, ns |-> cyNodeSeq, es |-> cyEdgeSeq]

\* cy.$("node.pattern"): the patterns in the graph, in the order added
PatternsInGraph(g) ==
    SelectSeq(g.ns, LAMBDA i : ~g.n[i].removed /\ g.n[i].isPattern)

\* every pattern element created in this.cy, in the graph or removed
PatternEles == { i \in DOMAIN cyNodes : cyNodes[i].isPattern }

\* --------------------------------------------------------- initPatterns
\* the [id, [cSource, cTarget]] entries of an edge map, in the order the
\* edges come in the collection (the order for..in walks the map later)
EdgeMapOf(g, edgeSeq) ==
    [ j \in 1..Len(edgeSeq) |->
        [id |-> edgeSeq[j],
         st |-> << g.e[edgeSeq[j]].source, g.e[edgeSeq[j]].target >>] ]

\* the body of initPatterns' loop for one pattern: records the incoming and
\* outgoing edge maps in the pattern's data and the interior elements in its
\* scratch
InitPattern(g, pattern) ==
    LET children == Children(g, pattern)
        uIncomingEdges == Incomers(g, children)
        uOutgoingEdges == Outgoers(g, children)
        incomingEdges == Difference(uIncomingEdges, uOutgoingEdges)
        outgoingEdges == Difference(uOutgoingEdges, uIncomingEdges)
        interiorEdges == (ConnectedEdges(g, SeqToSet(children))
                            \ SeqToSet(incomingEdges)) \ SeqToSet(outgoingEdges)
    IN  [g EXCEPT !.n[pattern] =
            [@ EXCEPT !.incomingEdgeMap = EdgeMapOf(g, incomingEdges),
                      !.outgoingEdgeMap = EdgeMapOf(g, outgoingEdges),
                      !.hasInteriorEles = TRUE,
                      !.interiorEdges = interiorEdges,
                      !.interiorNodes = SeqToSet(children)]]

RECURSIVE InitPatternsFrom(_, _)
InitPatternsFrom(g, patterns) ==
    IF patterns = <<>> THEN g
    ELSE InitPatternsFrom(InitPattern(g, Head(patterns)), Tail(patterns))

\* Drawer.initPatterns
initPatterns(g) == InitPatternsFrom(g, PatternsInGraph(g))

\* ------------------------------------------- collapsing and uncollapsing
\* a makeEdgeBasic that keeps unbundledbezier on an edge that has it
OnlyNotUsingPorts(edgeEle) ==
    [edgeEle EXCEPT !.classes =
        (IF "unbundledbezier" \in @ THEN @ ELSE @ \cup {"basicbezier"})
            \cup {"not_using_ports"}]

\* Drawer.makeEdgeBasic, on an edge element
makeEdgeBasic(edgeEle) ==
    [edgeEle EXCEPT !.classes =
        (IF edgeEle.cpd THEN (@ \ {"unbundledbezier"}) \cup {"basicbezier"} ELSE @)
            \cup {"not_using_ports"}]

\* a makeEdgeNonBasic that leaves the classes of the edge alone
LeaveEdgeClasses(edgeEle) == edgeEle

\* Drawer.makeEdgeNonBasic, on an edge element
makeEdgeNonBasic(edgeEle) ==
    [edgeEle EXCEPT !.classes =
        (IF edgeEle.cpd THEN (@ \ {"basicbezier"}) \cup {"unbundledbezier"} ELSE @)
            \ {"not_using_ports"}]

RECURSIVE CollapseIncoming(_, _, _)
\* collapsePattern's loop over incomingEdgeMap. cy.getElementById of an edge
\* that is not in the graph gives an empty collection, on which
\* makeEdgeBasic and move do nothing.
CollapseIncoming(g, pattID, entries) ==
    IF entries = <<>> THEN g
    ELSE LET id == Head(entries).id
             g1 == IF id \in EdgePool(g)
                   THEN [g EXCEPT !.e[id] = makeEdgeBasic(@)]
                   ELSE g
         IN  CollapseIncoming(MoveTarget(g1, id, pattID), pattID, Tail(entries))

RECURSIVE CollapseOutgoing(_, _, _)
\* collapsePattern's loop over outgoingEdgeMap
CollapseOutgoing(g, pattID, entries) ==
    IF entries = <<>> THEN g
    ELSE LET id == Head(entries).id
             g1 == IF id \in EdgePool(g)
                   THEN [g EXCEPT !.e[id] = makeEdgeBasic(@)]
                   ELSE g
         IN  CollapseOutgoing(MoveSource(g1, id, pattID), pattID, Tail(entries))

\* a data("isCollapsed", value) that reaches every pattern of the graph
SetEveryIsCollapsed(g, pattern, value) ==
    [g EXCEPT !.n = [ i \in DOMAIN g.n |->
                        IF g.n[i].isPattern THEN [g.n[i] EXCEPT !.isCollapsed = value]
                        ELSE g.n[i] ]]

\* pattern.data("isCollapsed", value)
SetIsCollapsed(g, pattern, value) == [g EXCEPT !.n[pattern].isCollapsed = value]

\* Drawer.collapsePattern up to the point where it returns or throws:
\* [g |-> the graph, err |-> "none" or the error, batch |-> batches left open]
collapsePattern(g, pattern) ==
    LET g1 == CollapseIncoming(g, pattern, g.n[pattern].incomingEdgeMap)
        g2 == CollapseOutgoing(g1, pattern, g.n[pattern].outgoingEdgeMap)
        g3 == SetIsCollapsed(g2, pattern, TRUE)
    IN  IF ~g.n[pattern].hasInteriorEles
        THEN \* pattern.scratch("_interiorEles") is undefined
             [g |-> g3, err |-> "TypeError", batch |-> 1]
        ELSE [g |-> Remove(g3, g.n[pattern].interiorNodes, g.n[pattern].interiorEdges),
              err |-> "none", batch |-> 0]

RECURSIVE UncollapseIncoming(_, _)
\* uncollapsePattern's loop over incomingEdgeMap; stops at the first edge
\* that is not in the graph (source() of an empty collection is undefined)
UncollapseIncoming(r, entries) ==
    IF entries = <<>> \/ r.err # "none" THEN r
    ELSE LET id == Head(entries).id
             newTgt == Head(entries).st[2]
             g == r.g
         IN  IF id \notin EdgePool(g)
             THEN [r EXCEPT !.err = "TypeError"]
             ELSE LET g1 == IF ~g.n[g.e[id].source].isPattern
                            THEN [g EXCEPT !.e[id] = makeEdgeNonBasic(@)]
                            ELSE g
                  IN  UncollapseIncoming([r EXCEPT !.g = MoveTarget(g1, id, newTgt)],
                                         Tail(entries))

RECURSIVE UncollapseOutgoing(_, _)
\* uncollapsePattern's loop over outgoingEdgeMap
UncollapseOutgoing(r, entries) ==
    IF entries = <<>> \/ r.err # "none" THEN r
    ELSE LET id == Head(entries).id
             newSrc == Head(entries).st[1]
             g == r.g
         IN  IF id \notin EdgePool(g)
             THEN [r EXCEPT !.err = "TypeError"]
             ELSE LET g1 == IF ~g.n[g.e[id].target].isPattern
                            THEN [g EXCEPT !.e[id] = makeEdgeNonBasic(@)]
                            ELSE g
                  IN  UncollapseOutgoing([r EXCEPT !.g = MoveSource(g1, id, newSrc)],
                                         Tail(entries))

\* Drawer.uncollapsePattern up to the point where it returns or throws
uncollapsePattern(g, pattern) ==
    IF ~g.n[pattern].hasInteriorEles
    THEN \* pattern.scratch("_interiorEles") is undefined
         [g |-> g, err |-> "TypeError", batch |-> 1]
    ELSE LET g1 == Restore(g, g.n[pattern].interiorNodes, g.n[pattern].interiorEdges)
             r1 == UncollapseIncoming([g |-> g1, err |-> "none", batch |-> 1],
                                      g.n[pattern].incomingEdgeMap)
             r2 == UncollapseOutgoing(r1, g.n[pattern].outgoingEdgeMap)
         IN  IF r2.err # "none" THEN r2
             ELSE [g |-> SetIsCollapsed(r2.g, pattern, FALSE),
                   err |-> "none", batch |-> 0]

\* ------------------------------------------------------------------- draw
\* Math.abs(utils.pointToLineDistance(currPt, srcPos, tgtPos)) > epsilon,
\* in exact integer arithmetic: the perpendicular distance of the point to
\* the line through srcPos and tgtPos is |cross| / |tgtPos - srcPos|
PointToLineDistanceExceeds(currPt, srcPos, tgtPos, epsilon) ==
    LET ddx == tgtPos[1] - srcPos[1]
        ddy == tgtPos[2] - srcPos[2]
        cross == ddx * (srcPos[2] - currPt[2]) - (srcPos[1] - currPt[1]) * ddy
    IN  cross * cross > epsilon * epsilon * (ddx * ddx + ddy * ddy)

\* (a - o) . (b - o)
Dot(a, b, o) == (a[1] - o[1]) * (b[1] - o[1]) + (a[2] - o[2]) * (b[2] - o[2])

Abs(n) == IF n < 0 THEN 0 - n ELSE n

\* The weight w of control point currPt, as the fraction num / den. With d
\* the distance from srcPos to tgtPos, ws = sqrt(dsp^2 - pld^2) is the
\* length |(currPt - srcPos) . (tgtPos - srcPos)| / d of the projection of
\* currPt - srcPos on the line and wt that of currPt - tgtPos; the point is
\* "behind" the source when wt > d and wt > ws, and w is -ws / d then and
\* ws / d otherwise.
WeightOf(currPt, srcPos, tgtPos) ==
    LET d2 == Dot(tgtPos, tgtPos, srcPos)
        wsd == Abs(Dot(currPt, tgtPos, srcPos))
        wtd == Abs(Dot(currPt, tgtPos, srcPos) - d2)
    IN  IF wtd > d2 /\ wtd > wsd
        THEN [num |-> 0 - wsd, den |-> d2]
        ELSE [num |-> wsd, den |-> d2]

\* the rectification of the weight of the control point at p, the first of
\* its two places in ctrlPts: 0 becomes 0.01 at the first control point, 1
\* becomes 0.99 at the last one
Rectified(w, p, ctrlPts) ==
    IF p = 1 /\ w.num = 0 THEN [num |-> 1, den |-> 100]
    ELSE IF p = Len(ctrlPts) - 1 /\ w.num = w.den THEN [num |-> 99, den |-> 100]
    ELSE w

\* w.toFixed(2), in hundredths: the nearest hundredth, the one further from
\* zero when two are as near
toFixed2(w) ==
    IF w.num < 0 THEN 0 - ((200 * (0 - w.num) + w.den) \div (2 * w.den))
    ELSE (200 * w.num + w.den) \div (2 * w.den)

\* Drawer.convertCtrlPtsToDistsAndWeights: the complex flag and the weights
\* of its result, a weight as the hundredths written out for it (the dists
\* are written out for the same control points)
convertCtrlPtsToDistsAndWeights(srcPos, tgtPos, ctrlPts, dy) ==
    [complex |->
        \E p \in 1..Len(ctrlPts) :
            /\ p % 2 = 1
            /\ PointToLineDistanceExceeds(<< ctrlPts[p], dy - ctrlPts[p + 1] >>,
                                          srcPos, tgtPos, CTRL_PT_DIST_EPSILON),
     weights |->
        [ k \in 1..(Len(ctrlPts) \div 2) |->
            toFixed2(Rectified(WeightOf(<< ctrlPts[2 * k - 1], dy - ctrlPts[2 * k] >>,
                                        srcPos, tgtPos),
                               2 * k - 1, ctrlPts)) ]]

\* the collection f of elements by id, with the element v of id k added
AddEle(f, k, v) == [ i \in DOMAIN f \cup {k} |-> IF i = k THEN v ELSE f[i] ]

\* cy.add of a node element: an element whose id is already in the graph is
\* not created; a parent that is not in the graph is dropped from the data
AddNode(g, id, ele) ==
    IF id \in DOMAIN g.n THEN g
    ELSE LET parent == IF ele.parent \in NodePool(g) THEN ele.parent ELSE NULL
         IN  [g EXCEPT !.n = AddEle(@, id, [ele EXCEPT !.parent = parent]),
                       !.ns = Append(@, id)]

\* cy.add of an edge element (it gets a fresh id): an edge whose source or
\* target is not in the graph is not created
AddEdge(g, id, ele) ==
    IF ele.source \notin NodePool(g) \/ ele.target \notin NodePool(g) THEN g
    ELSE [g EXCEPT !.e = AddEle(@, id, ele), !.es = Append(@, id)]

\* the class letter renderPattern gives a pattern type
PatternTypeClass(type) ==
    IF type = "chain" THEN "C"
    ELSE IF type = "cyclicchain" THEN "Y"
    ELSE IF type = "bubble" THEN "B"
    ELSE IF type = "frayedrope" THEN "F"
    ELSE "M"

\* The state draw() threads through its loops:
\* d = [g, numDrawnPatterns, numDrawnNodes, numDrawnEdges, err, dy]

\* a renderPattern that creates the pattern collapsed
RenderCollapsed(d, pattVals) ==
    [d EXCEPT !.g = AddNode(@, pattVals.pattern_id,
                            [parent |-> pattVals.parent_id,
                             removed |-> FALSE,
                             isPattern |-> TRUE,
                             interiorEdges |-> {},
                             incomingEdgeMap |-> <<>>,
                             outgoingEdgeMap |-> <<>>,
                             hasInteriorEles |-> FALSE,
                             interiorNodes |-> {},
                             classes |-> {"pattern",
                                          PatternTypeClass(pattVals.pattern_type)},
                             isCollapsed |-> TRUE]),
              !.numDrawnPatterns = @ + 1]

\* Drawer.renderPattern
renderPattern(d, pattVals) ==
    LET pattData == [parent |-> pattVals.parent_id,
                     removed |-> FALSE,
                     isPattern |-> TRUE,
                     interiorEdges |-> {},
                     incomingEdgeMap |-> <<>>,
                     outgoingEdgeMap |-> <<>>,
                     hasInteriorEles |-> FALSE,
                     interiorNodes |-> {},
                     classes |-> {"pattern", PatternTypeClass(pattVals.pattern_type)},
                     isCollapsed |-> FALSE]
    IN  [d EXCEPT !.g = AddNode(@, pattVals.pattern_id, pattData),
                  !.numDrawnPatterns = @ + 1]

\* renderNode without the throw: an orientation other than "+" points left
AnyOrientation(d, nodeVals, nodeID) ==
    [d EXCEPT !.g = AddNode(@, nodeID,
                        [parent |-> nodeVals.parent_id,
                         removed |-> FALSE,
                         isPattern |-> FALSE,
                         interiorEdges |-> {},
                         incomingEdgeMap |-> <<>>,
                         outgoingEdgeMap |-> <<>>,
                         hasInteriorEles |-> FALSE,
                         interiorNodes |-> {},
                         classes |-> {"basic", IF nodeVals.orientation = "+"
                                               THEN "rightdir" ELSE "leftdir"},
                         isCollapsed |-> FALSE]),
              !.numDrawnNodes = @ + 1]

\* Drawer.renderNode
renderNode(d, nodeVals, nodeID) ==
    LET orientation == nodeVals.orientation
        nodeData == [parent |-> nodeVals.parent_id,
                     removed |-> FALSE,
                     isPattern |-> FALSE,
                     interiorEdges |-> {},
                     incomingEdgeMap |-> <<>>,
                     outgoingEdgeMap |-> <<>>,
                     hasInteriorEles |-> FALSE,
                     interiorNodes |-> {},
                     classes |-> {"basic", IF orientation = "+" THEN "rightdir"
                                                                ELSE "leftdir"},
                     isCollapsed |-> FALSE]
    IN  IF orientation # "+" /\ orientation # "-"
        THEN [d EXCEPT !.err = "InvalidNodeOrientation"]
        ELSE [d EXCEPT !.g = AddNode(@, nodeID, nodeData),
                       !.numDrawnNodes = @ + 1]

\* Drawer.renderEdge; k tells apart the ids Cytoscape.js gives the edges of
\* the k-th entry of componentsToDraw
renderEdge(d, edgeVals, node2pos, srcID, tgtID, k) ==
    LET edgeID == << srcID, tgtID, k >>
        basic == [removed |-> FALSE, target |-> tgtID, source |-> srcID,
                  classes |-> {"basicbezier", "oriented"}, cpd |-> FALSE]
        unbundled == [removed |-> FALSE, target |-> tgtID, source |-> srcID,
                      classes |-> {"unbundledbezier", "oriented"}, cpd |-> TRUE]
    IN  IF srcID = tgtID
        THEN [d EXCEPT !.g = AddEdge(@, edgeID, basic),
                       !.numDrawnEdges = @ + 1]
        ELSE IF srcID \notin DOMAIN node2pos \/ tgtID \notin DOMAIN node2pos
        THEN [d EXCEPT !.err = "IDsNotInNode2pos"]
        ELSE LET ctrlPtData == convertCtrlPtsToDistsAndWeights(
                                   node2pos[srcID], node2pos[tgtID],
                                   edgeVals.ctrl_pt_coords, d.dy)
             IN  [d EXCEPT !.g = AddEdge(@, edgeID,
                                    IF ctrlPtData.complex THEN unbundled ELSE basic),
                           !.numDrawnEdges = @ + 1]

RECURSIVE LastPatternFirst(_, _)
\* the loop over the patterns run from the end of the list
LastPatternFirst(d, patts) ==
    IF patts = <<>> THEN d
    ELSE LastPatternFirst(renderPattern(d, patts[Len(patts)]),
                          SubSeq(patts, 1, Len(patts) - 1))

RECURSIVE RenderPatterns(_, _)
\* draw's loop over the patterns of a component
RenderPatterns(d, patts) ==
    IF patts = <<>> THEN d
    ELSE RenderPatterns(renderPattern(d, Head(patts)), Tail(patts))

RECURSIVE RenderNodes(_, _, _)
\* draw's loop over the nodes of a component; a throw ends it
RenderNodes(d, nodes, ids) ==
    IF ids = <<>> \/ d.err # "none" THEN d
    ELSE RenderNodes(renderNode(d, nodes[Head(ids)], Head(ids)), nodes, Tail(ids))

\* the [srcID, tgtID] pairs of a component's edges in the order draw's two
\* nested loops visit them
EdgePairs(edges) ==
    FlatSeq([ i \in 1..Cardinality(DOMAIN edges) |->
        LET srcID == SortedSeq(DOMAIN edges)[i]
            tgts == SortedSeq(DOMAIN edges[srcID])
        IN  [ j \in 1..Len(tgts) |-> << srcID, tgts[j] >> ] ])

RECURSIVE RenderEdges(_, _, _, _, _)
\* draw's loops over the edges of a component; a throw ends them
RenderEdges(d, edges, node2pos, pairs, k) ==
    IF pairs = <<>> \/ d.err # "none" THEN d
    ELSE LET srcID == Head(pairs)[1]
             tgtID == Head(pairs)[2]
         IN  RenderEdges(renderEdge(d, edges[srcID][tgtID], node2pos, srcID, tgtID, k),
                         edges, node2pos, Tail(pairs), k)

\* the body of draw's loop for the k-th entry, sizeRank, of componentsToDraw;
\* the first DataHolder call throws when the rank is not valid
DrawComponent(d, sizeRank, k, dataHolder) ==
    IF getPatternsInComponent(dataHolder, sizeRank).threw # "none"
    THEN [d EXCEPT !.err = getPatternsInComponent(dataHolder, sizeRank).threw]
    ELSE LET d1 == RenderPatterns(d, getPatternsInComponent(dataHolder, sizeRank).value)
             nodes == getNodesInComponent(dataHolder, sizeRank).value
             d2 == RenderNodes(d1, nodes, SortedSeq(DOMAIN nodes))
             node2pos == [ i \in DOMAIN nodes |-> << nodes[i].x, d.dy - nodes[i].y >> ]
             edges == getEdgesInComponent(dataHolder, sizeRank).value
             d3 == RenderEdges(d2, edges, node2pos, EdgePairs(edges), k)
             componentBoundingBox == getComponentBoundingBox(dataHolder, sizeRank).value
         IN  IF d2.err # "none" THEN d2
             ELSE IF d3.err # "none" THEN d3
             ELSE IF componentBoundingBox = <<>>
             THEN \* componentBoundingBox[1] of undefined
                  [d3 EXCEPT !.err = "TypeError"]
             ELSE [d3 EXCEPT !.dy = @ - (componentBoundingBox[2] + 50)]

RECURSIVE DrawComponents(_, _, _, _)
\* draw's loop over componentsToDraw; a throw ends it
DrawComponents(d, componentsToDraw, k, dataHolder) ==
    IF k > Len(componentsToDraw) \/ d.err # "none" THEN d
    ELSE DrawComponents(DrawComponent(d, componentsToDraw[k], k, dataHolder),
                        componentsToDraw, k + 1, dataHolder)

\* Drawer.draw from a fresh Cytoscape.js instance (after destroyGraph and
\* initGraph): the elements, the counters and the error it ends with;
\* initPatterns runs only when no render threw
draw(componentsToDraw, dataHolder) ==
    LET d0 == [numDrawnNodes |-> 0, numDrawnEdges |-> 0, numDrawnPatterns |-> 0,
               g |-> [n |-> <<>>, e |-> <<>>, ns |-> <<>>, es |-> <<>>],
               err |-> "none", dy |-> 0]
        d1 == DrawComponents(d0, componentsToDraw, 1, dataHolder)
    IN  IF d1.err # "none" THEN d1
        ELSE [d1 EXCEPT !.g = initPatterns(@)]

\* ---------------------------------------------------------------- actions
\* the size ranks a caller may put in componentsToDraw: the valid ones, 0
\* and one too large
RankChoices == { Whole(n) : n \in 0..(numComponents(data) + 1) }

\* the componentsToDraw arrays explored
DrawRequests ==
    UNION { [1..len -> RankChoices] : len \in 1..MaxDrawLen }

\* what the collapse/uncollapse operations show of a graph: the elements in
\* the graph and the active source and target of every edge in it
View(g) ==
    [nodes |-> NodePool(g),
     edges |-> [ i \in EdgePool(g) |-> << g.e[i].source, g.e[i].target >> ]]

NoTrip == [pattern |-> NULL, stage |-> "none", pre |-> [nodes |-> {}, edges |-> <<>>]]

\* draw(componentsToDraw) for every array explored, worked out once and held
\* as an explicit table
DrawResult ==
    [ componentsToDraw \in DrawRequests |-> draw(componentsToDraw, data) ] @@ <<>>

NoCall == [method |-> "none", arg |-> NULL, result |-> NULL]

\* the Drawer after construction
DrawerInit ==
    /\ cyExists = FALSE
    /\ cyNodes = <<>>
    /\ cyNodeSeq = <<>>
    /\ cyEdges = <<>>
    /\ cyEdgeSeq = <<>>
    /\ batchDepth = 0
    /\ numDrawnNodes = 0
    /\ numDrawnEdges = 0
    /\ numDrawnPatterns = 0
    /\ lastError = "none"
    /\ lastOp = [name |-> "new", pattern |-> NULL, componentsToDraw |-> <<>>]
    /\ visibleOnly = TRUE
    /\ trip = NoTrip

Init ==
    /\ DrawerInit
    /\ holder = << 1, 2, 3, 4 >>
    /\ called = NoCall

\* Drawer.draw(componentsToDraw, dataHolder): destroyGraph (when a graph
\* exists), initGraph, startBatch, the render loops, initPatterns and
\* finishDraw (endBatch). A throw leaves the batch open.
Draw(componentsToDraw) ==
    /\ cyExists' = TRUE
    /\ lastOp' = [name |-> "draw", pattern |-> NULL,
                  componentsToDraw |-> componentsToDraw]
    /\ visibleOnly' = TRUE
    /\ trip' = NoTrip
    /\ \E d \in { DrawResult[componentsToDraw] } :
        /\ cyNodes' = d.g.n
        /\ cyNodeSeq' = d.g.ns
        /\ cyEdges' = d.g.e
        /\ cyEdgeSeq' = d.g.es
        /\ batchDepth' = IF d.err = "none" THEN 0 ELSE 1
        /\ numDrawnNodes' = d.numDrawnNodes
        /\ numDrawnEdges' = d.numDrawnEdges
        /\ numDrawnPatterns' = d.numDrawnPatterns
        /\ lastError' = d.err
    /\ UNCHANGED << holder, called >>

\* Drawer.collapsePattern(pattern), pattern an element of this.cy
CollapsePattern(pattern) ==
    LET r == collapsePattern(Graph, pattern)
    IN  /\ cyExists
        /\ pattern \in PatternEles
        /\ batchDepth < MaxBatchDepth
        /\ cyNodes' = r.g.n
        /\ cyEdges' = r.g.e
        /\ batchDepth' = batchDepth + r.batch
        /\ lastError' = r.err
        /\ lastOp' = [name |-> "collapsePattern", pattern |-> pattern,
                      componentsToDraw |-> <<>>]
        /\ visibleOnly' = (visibleOnly /\ pattern \in NodePool(Graph))
        /\ trip' = IF /\ visibleOnly
                      /\ pattern \in NodePool(Graph)
                      /\ ~cyNodes[pattern].isCollapsed
                   THEN [pattern |-> pattern, stage |-> "collapsed", pre |-> View(Graph)]
                   ELSE NoTrip
        /\ UNCHANGED << cyExists, cyNodeSeq, cyEdgeSeq,
                        numDrawnNodes, numDrawnEdges, numDrawnPatterns,
                        holder, called >>

\* Drawer.uncollapsePattern(pattern), pattern an element of this.cy
UncollapsePattern(pattern) ==
    LET r == uncollapsePattern(Graph, pattern)
    IN  /\ cyExists
        /\ pattern \in PatternEles
        /\ batchDepth < MaxBatchDepth
        /\ cyNodes' = r.g.n
        /\ cyEdges' = r.g.e
        /\ batchDepth' = batchDepth + r.batch
        /\ lastError' = r.err
        /\ lastOp' = [name |-> "uncollapsePattern", pattern |-> pattern,
                      componentsToDraw |-> <<>>]
        /\ visibleOnly' = (visibleOnly /\ pattern \in NodePool(Graph))
        /\ trip' = IF trip.stage = "collapsed" /\ trip.pattern = pattern
                   THEN [trip EXCEPT !.stage = "restored"]
                   ELSE NoTrip
        /\ UNCHANGED << cyExists, cyNodeSeq, cyEdgeSeq,
                        numDrawnNodes, numDrawnEdges, numDrawnPatterns,
                        holder, called >>

Next ==
    \/ \E componentsToDraw \in DrawRequests : Draw(componentsToDraw)
    \/ \E pattern \in PatternEles : CollapsePattern(pattern)
    \/ \E pattern \in PatternEles : UncollapsePattern(pattern)

Spec == Init /\ [][Next]_vars

\* ------------------------------------------- calls of the DataHolder methods
\* the largest number of components of a DataHolder explored
MaxComponents == 3

\* the contents a component of a DataHolder is taken from
ComponentPool ==
    << Component1, Component2, Component3, Component4, Component5, Component6,
       Component7 >>

\* this.data with the components h names
DataOf(h) == [components |-> [ i \in DOMAIN h |-> ComponentPool[h[i]] ]]

\* this.data of the DataHolder whose methods are called
HolderData == DataOf(holder)

\* the data explored: up to MaxComponents components, no laid-out component
\* twice
Holders ==
    { h \in UNION { [1..n -> DOMAIN ComponentPool] : n \in 0..MaxComponents } :
        \A i, j \in DOMAIN h :
            (i # j /\ h[i] = h[j]) => ComponentPool[h[i]].skipped }

\* the numbers handed over as a size rank
SizeRanks ==
    { Whole(n) : n \in (0 - 1)..(MaxComponents + 1) }
        \cup { Between(n) : n \in (0 - 1)..MaxComponents }

Call(method, arg, result) ==
    /\ called' = [method |-> method, arg |-> arg, result |-> result]
    /\ UNCHANGED holder
    /\ UNCHANGED drawerVars

ValidateComponentRank ==
    /\ called.method = "none"
    /\ \E sizeRank \in SizeRanks :
        Call("validateComponentRank", sizeRank,
             validateComponentRank(HolderData, sizeRank))

GetPatternsInComponent ==
    /\ called.method = "none"
    /\ \E sizeRank \in SizeRanks :
        Call("getPatternsInComponent", sizeRank,
             getPatternsInComponent(HolderData, sizeRank))

GetNodesInComponent ==
    /\ called.method = "none"
    /\ \E sizeRank \in SizeRanks :
        Call("getNodesInComponent", sizeRank,
             getNodesInComponent(HolderData, sizeRank))

GetEdgesInComponent ==
    /\ called.method = "none"
    /\ \E sizeRank \in SizeRanks :
        Call("getEdgesInComponent", sizeRank,
             getEdgesInComponent(HolderData, sizeRank))

GetComponentBoundingBox ==
    /\ called.method = "none"
    /\ \E sizeRank \in SizeRanks :
        Call("getComponentBoundingBox", sizeRank,
             getComponentBoundingBox(HolderData, sizeRank))

\* the ids a node is looked up by: ids of nodes of the components, and one
\* that no component holds
NodeIDs == {1, 6, 9, 31, 41, 61, 99}

\* the longest pattern id, in characters, a pattern is looked up by
MaxIdLen == 2

\* the strings a pattern is looked up by
PatternIDs ==
    UNION { [1..n -> {"0", "1", "2", "-", "."}] : n \in 0..MaxIdLen }

GetNodeInfo ==
    /\ called.method = "none"
    /\ \E nodeID \in NodeIDs :
        Call("getNodeInfo", nodeID, getNodeInfo(HolderData, nodeID))

GetNodeName ==
    /\ called.method = "none"
    /\ \E nodeID \in NodeIDs :
        Call("getNodeName", nodeID, getNodeName(HolderData, nodeID))

GetPatternInfo ==
    /\ called.method = "none"
    /\ \E pattID \in PatternIDs :
        Call("getPatternInfo", pattID, getPatternInfo(HolderData, pattID))

\* the names a node is searched by: names of nodes of the components, one
\* in another case, and one that no component holds
QueryNames == {"ctg_a", "ctg_b", "ctg_f", "ctg_l", "ctg_m", "CTG_A", "ctg_q"}

FindComponentContainingNodeName ==
    /\ called.method = "none"
    /\ \E queryName \in QueryNames :
        Call("findComponentContainingNodeName", queryName,
             Returned(findComponentContainingNodeName(HolderData, queryName)))

SmallestViewableComponent ==
    /\ called.method = "none"
    /\ Call("smallestViewableComponent", NULL, smallestViewableComponent(HolderData))

GetAllLaidOutComponentRanks ==
    /\ called.method = "none"
    /\ Call("getAllLaidOutComponentRanks", NULL,
            Returned(getAllLaidOutComponentRanks(HolderData)))

\* a DataHolder over any of the data explored, and one call of a method
\* the (srcID, tgtID) pairs an edge is looked up by
EdgeQueries ==
    { << 1, 2 >>, << 1, 71 >>, << 1, 9 >>, << 2, 2 >>, << 9, 7 >>,
      << 61, 62 >>, << 99, 1 >> }

GetEdgeInfo ==
    /\ called.method = "none"
    /\ \E q \in EdgeQueries :
        Call("getEdgeInfo", q, getEdgeInfo(HolderData, q[1], q[2]))

CallsInit ==
    /\ DrawerInit
    /\ holder \in Holders
    /\ called = NoCall

CallsNext ==
    \/ ValidateComponentRank
    \/ GetPatternsInComponent
    \/ GetNodesInComponent
    \/ GetEdgesInComponent
    \/ GetComponentBoundingBox
    \/ GetNodeInfo
    \/ GetNodeName
    \/ GetPatternInfo
    \/ GetEdgeInfo
    \/ SmallestViewableComponent
    \/ GetAllLaidOutComponentRanks
    \/ FindComponentContainingNodeName

Calls == CallsInit /\ [][CallsNext]_vars

\* ------------------------------------- calls of the functions of the Drawer
\* the values of a node's orientation explored
Orientations == {"rightdir", "+", "-", "?", "", "+-"}

\* the Drawer a render function is called on: a new one, and one that has
\* rendered the patterns and nodes of component 1
DrawStates ==
    { [numDrawnNodes |-> 0, numDrawnEdges |-> 0, numDrawnPatterns |-> 0,
       g |-> [n |-> <<>>, e |-> <<>>, ns |-> <<>>, es |-> <<>>],
       err |-> "none", dy |-> 0],
      RenderNodes(RenderPatterns(
                      [numDrawnNodes |-> 0, numDrawnEdges |-> 0,
                       numDrawnPatterns |-> 0,
                       g |-> [n |-> <<>>, e |-> <<>>, ns |-> <<>>, es |-> <<>>],
                       err |-> "none", dy |-> 0],
                      Component1.patts),
                  Component1.nodes, SortedSeq(DOMAIN Component1.nodes)) }

\* the node data handed to renderNode
NodeValsChoices ==
    { NodeVals(name, orientation, parent, x, 0) :
        name \in {"ctg_y", "ctg_z"}, orientation \in Orientations,
        parent \in {NULL, 10}, x \in {0, 100} }

RenderNode ==
    /\ called.method = "none"
    /\ \E d \in DrawStates, nodeVals \in NodeValsChoices, nodeID \in {50, 51} :
        called' = [method |-> "renderNode",
                   arg |-> [nodeID |-> nodeID, d |-> d, nodeVals |-> nodeVals],
                   result |-> renderNode(d, nodeVals, nodeID)]
    /\ UNCHANGED holder
    /\ UNCHANGED drawerVars

\* the most control points of an edge explored
MaxCtrlPts == 2

\* the positions of the target node explored, the source node at the origin
TgtPositions == { <<300, 0>>, <<0 - 300, 0>> }

\* the coordinates of a control point explored
CtrlPtCoords == { <<x, y>> : x \in {0 - 30, 0, 1, 150, 299, 300}, y \in {0, 5, 6} }

RECURSIVE Flattened(_)
\* [x1, y1, x2, y2, ...] of a sequence of points
Flattened(pts) ==
    IF pts = <<>> THEN <<>> ELSE << Head(pts)[1], Head(pts)[2] >> \o Flattened(Tail(pts))

\* the ctrl_pt_coords arrays explored
CtrlPtsChoices ==
    { Flattened(pts) : pts \in UNION { [1..n -> CtrlPtCoords] : n \in 1..MaxCtrlPts } }

ConvertCtrlPtsToDistsAndWeights ==
    /\ called.method = "none"
    /\ \E tgtPos \in TgtPositions, ctrlPts \in CtrlPtsChoices, dy \in {0, 10} :
        called' = [method |-> "convertCtrlPtsToDistsAndWeights",
                   arg |-> [ctrlPts |-> ctrlPts, srcPos |-> <<0, 0>>,
                            tgtPos |-> tgtPos, dy |-> dy],
                   result |-> convertCtrlPtsToDistsAndWeights(<<0, 0>>, tgtPos,
                                                              ctrlPts, dy)]
    /\ UNCHANGED holder
    /\ UNCHANGED drawerVars

\* a Drawer and one call of one of its functions
RendersNext ==
    \/ RenderNode
    \/ ConvertCtrlPtsToDistsAndWeights

Renders == Init /\ [][RendersNext]_vars

\* ------------------------------------------ collapsing and expanding all
\* cy.$("node.pattern:orphan"): the patterns of the graph that lie in no
\* other pattern, in the order added
TopLevelPatterns(g) ==
    SelectSeq(PatternsInGraph(g), LAMBDA i : g.n[i].parent = NULL)

RECURSIVE ToggleEach(_, _, _)
\* collapsePattern (target TRUE) or uncollapsePattern (target FALSE) on each
\* pattern in turn; a throw ends the loop. toggled lists the patterns the
\* operation was called on.
ToggleEach(r, patterns, target) ==
    IF patterns = << >> \/ r.err # "none"
    THEN r
    ELSE LET pattern == Head(patterns)
             t == IF target THEN collapsePattern(r.g, pattern)
                            ELSE uncollapsePattern(r.g, pattern)
         IN  ToggleEach([g |-> t.g, err |-> t.err, batch |-> r.batch + t.batch,
                         toggled |-> Append(r.toggled, pattern)],
                        Tail(patterns), target)

\* collapseAll(): collapse on every top-level pattern that is not collapsed
collapseAll(g) ==
    ToggleEach([g |-> g, err |-> "none", batch |-> 0, toggled |-> << >>],
               SelectSeq(TopLevelPatterns(g), LAMBDA i : ~g.n[i].isCollapsed),
               TRUE)

\* expandAll(): uncollapse on every top-level pattern that is collapsed
expandAll(g) ==
    ToggleEach([g |-> g, err |-> "none", batch |-> 0, toggled |-> << >>],
               SelectSeq(TopLevelPatterns(g), LAMBDA i : g.n[i].isCollapsed),
               FALSE)

\* one call of collapseAll() on the Drawer's graph; called.result lists the
\* patterns collapsePattern was called on
CollapseAll ==
    LET r == collapseAll(Graph)
    IN  /\ cyExists
        /\ batchDepth < MaxBatchDepth
        /\ cyNodes' = r.g.n
        /\ cyEdges' = r.g.e
        /\ batchDepth' = batchDepth + r.batch
        /\ lastError' = r.err
        /\ lastOp' = [name |-> "collapseAll", pattern |-> NULL,
                      componentsToDraw |-> << >>]
        /\ called' = [method |-> "collapseAll", arg |-> NULL, result |-> r.toggled]
        /\ trip' = [pattern |-> NULL, stage |-> "allCollapsed",
                    pre |-> View(Graph)]
        /\ UNCHANGED << cyExists, cyNodeSeq, cyEdgeSeq,
                        numDrawnNodes, numDrawnEdges, numDrawnPatterns,
                        visibleOnly, holder >>

\* one call of expandAll() on the Drawer's graph; called.result lists the
\* patterns uncollapsePattern was called on
ExpandAll ==
    LET r == expandAll(Graph)
    IN  /\ cyExists
        /\ batchDepth < MaxBatchDepth
        /\ cyNodes' = r.g.n
        /\ cyEdges' = r.g.e
        /\ batchDepth' = batchDepth + r.batch
        /\ lastError' = r.err
        /\ lastOp' = [name |-> "expandAll", pattern |-> NULL,
                      componentsToDraw |-> << >>]
        /\ called' = [method |-> "expandAll", arg |-> NULL, result |-> r.toggled]
        /\ trip' = IF trip.stage = "allCollapsed"
                   THEN [trip EXCEPT !.stage = "allRestored"]
                   ELSE NoTrip
        /\ UNCHANGED << cyExists, cyNodeSeq, cyEdgeSeq,
                        numDrawnNodes, numDrawnEdges, numDrawnPatterns,
                        visibleOnly, holder >>

\* the Drawer under draw, the two toggles and the two bulk operations
BulkNext ==
    \/ \E componentsToDraw \in DrawRequests : Draw(componentsToDraw)
    \/ \E pattern \in PatternEles : CollapsePattern(pattern)
    \/ \E pattern \in PatternEles : UncollapsePattern(pattern)
    \/ CollapseAll
    \/ ExpandAll

Bulk == Init /\ [][BulkNext]_vars

\* --------------------------------------------- the pattern hierarchy builder
\* The builder runs before the viewer gets its data: it takes the patterns
\* the detection passes found, each with the ids it lists as its members,
\* and emits the order in which a component's patterns are stored (the order
\* draw renders them in). members[p] is the set of ids pattern p lists;
\* patterns are numbered from 1 and 0 is a node.

\* the most patterns handed to the builder
MaxPatterns == 3

\* the patterns that list x as a member
Claimants(members, x) == { p \in DOMAIN members : x \in members[p] }

RECURSIVE ChildrenFirst(_, _, _)
\* an emission that puts every pattern after the patterns it lists
ChildrenFirst(members, emitted, remaining) ==
    LET ready == { p \in remaining :
                     (members[p] \cap DOMAIN members) \subseteq SeqToSet(emitted) }
    IN  IF remaining = {} THEN Returned(emitted)
        ELSE IF ready = {} THEN Threw("DataError")
        ELSE ChildrenFirst(members, emitted \o SortedSeq(ready), remaining \ ready)

RECURSIVE EmitFrom(_, _, _)
\* emits, round after round, the patterns all of whose claimants have been
\* emitted; when patterns remain and none is ready, containment is cyclic
EmitFrom(members, emitted, remaining) ==
    LET ready == { p \in remaining :
                     Claimants(members, p) \subseteq SeqToSet(emitted) }
    IN  IF remaining = {} THEN Returned(emitted)
        ELSE IF ready = {} THEN Threw("DataError")
        ELSE EmitFrom(members, emitted \o SortedSeq(ready), remaining \ ready)

\* the place of pattern p in the order
PlaceIn(order, p) == CHOOSE k \in DOMAIN order : order[k] = p

\* the parent of x in the forest: its claimant emitted last (NULL for a root)
ParentIn(members, order, x) ==
    IF Claimants(members, x) = {} THEN NULL
    ELSE CHOOSE p \in Claimants(members, x) :
            \A q \in Claimants(members, x) : PlaceIn(order, q) <= PlaceIn(order, p)

RECURSIVE AncestorsIn(_, _, _)
\* the parent of x, the parent of its parent, and so on
AncestorsIn(members, order, x) ==
    LET parent == ParentIn(members, order, x)
    IN  IF parent = NULL THEN {}
        ELSE {parent} \cup AncestorsIn(members, order, parent)

\* the builder: the order, with the parent of every pattern and node, or a
\* data error when containment is cyclic or when an id is claimed by a
\* pattern that is not among its ancestors in the forest
buildHierarchy(members) ==
    LET emitted == EmitFrom(members, << >>, DOMAIN members)
        ids == DOMAIN members \cup {0}
    IN  IF emitted.threw # "none" THEN emitted
        ELSE IF \E x \in ids :
                   ~(Claimants(members, x)
                        \subseteq AncestorsIn(members, emitted.value, x))
        THEN Threw("DataError")
        ELSE Returned([parent |-> [ x \in ids |->
                                      ParentIn(members, emitted.value, x) ],
                       order |-> emitted.value])

\* the pattern sets handed to the builder: up to MaxPatterns patterns, each
\* listing other patterns and the node
RawPatterns ==
    UNION { { members \in [1..n -> SUBSET (0..n)] :
                \A p \in 1..n : p \notin members[p] } : n \in 1..MaxPatterns }

BuildHierarchy ==
    /\ called.method = "none"
    /\ \E members \in RawPatterns :
        Call("buildHierarchy", members, buildHierarchy(members))

\* one run of the builder
BuildsNext ==
    \/ BuildHierarchy

Builds == Init /\ [][BuildsNext]_vars

\* ------------------------------------------------- vocabulary of the claims
\* the names of the two toggling operations
Toggles == {"collapsePattern", "uncollapsePattern"}

\* the last draw went through: initPatterns has run on every pattern
DrawnOK == lastOp.name # "new" /\ \A p \in PatternEles : cyNodes[p].hasInteriorEles

\* the canonical source and target of an edge: the nodes it was drawn between
CanonSource(i) == i[1]
CanonTarget(i) == i[2]

\* the parent the data gives element i (NULL when it has none)
ParentInData(i) ==
    LET laidOut == { c \in 1..numComponents(data) : ~data.components[c].skipped }
        asPatt == { v.parent_id : v \in UNION { SeqToSet(data.components[c].patts) \cap
                                     { w \in SeqToSet(data.components[c].patts) :
                                         w.pattern_id = i } : c \in laidOut } }
        asNode == { data.components[c].nodes[i].parent_id :
                      c \in { k \in laidOut : i \in DOMAIN data.components[k].nodes } }
    IN  IF asPatt \cup asNode = {} THEN NULL ELSE CHOOSE q \in asPatt \cup asNode : TRUE

RECURSIVE Enclosing(_)
\* the patterns that enclose element i, at any depth
Enclosing(i) ==
    IF ParentInData(i) = NULL THEN {}
    ELSE {ParentInData(i)} \cup Enclosing(ParentInData(i))

\* the descendants of pattern p among the elements created, at any depth
Descendants(p) == { i \in DOMAIN cyNodes : p \in Enclosing(i) }

\* the collapsed patterns that enclose element i
CollapsedEnclosing(i) == { q \in Enclosing(i) \cap PatternEles : cyNodes[q].isCollapsed }

\* the outermost collapsed pattern enclosing i, or i when none is collapsed
ActiveEndpoint(i) ==
    IF CollapsedEnclosing(i) = {} THEN i
    ELSE CHOOSE q \in CollapsedEnclosing(i) :
             \A o \in CollapsedEnclosing(i) : o \notin Enclosing(q)

\* the edge ids recorded in an edge map
Keys(edgeMap) == { edgeMap[j].id : j \in 1..Len(edgeMap) }

\* what a user sees of a graph: the elements in it, the active source and
\* target and the style classes of its edges, the collapse flag of every
\* pattern created
Display(g) ==
    [nodes |-> NodePool(g),
     edges |-> [ i \in EdgePool(g) |-> << g.e[i].source, g.e[i].target, g.e[i].classes >> ],
     flags |-> [ q \in { i \in DOMAIN g.n : g.n[i].isPattern } |-> g.n[q].isCollapsed ]]

\* ------------------------------------------------------------------ claims
\* C1 (as the spec states it): when collapsePattern(P) on an expanded,
\* visible pattern P is followed by uncollapsePattern(P), the graph is as it
\* was before the two calls: the same elements are in it and every edge has
\* the same active source and target.
C1_RoundTrip == trip.stage = "restored" => View(Graph) = trip.pre

\* C2 (as the spec states it): after a draw and any calls of collapsePattern
\* and uncollapsePattern on patterns in the graph, every edge whose canonical
\* endpoints are not both inside one same collapsed pattern is in the graph,
\* and each of its active endpoints is the canonical endpoint, or the
\* outermost collapsed pattern enclosing it.
C2_BoundaryEdges ==
    (DrawnOK /\ visibleOnly) =>
        \A i \in DOMAIN cyEdges :
            CollapsedEnclosing(CanonSource(i)) \cap CollapsedEnclosing(CanonTarget(i)) = {}
            => /\ i \in EdgePool(Graph)
               /\ cyEdges[i].source = ActiveEndpoint(CanonSource(i))
               /\ cyEdges[i].target = ActiveEndpoint(CanonTarget(i))

\* Every step records the call it makes in lastOp, so lastOp' names the call
\* a step is of.

\* C3 (as the spec states it): collapsePattern(P) on a collapsed P and
\* uncollapsePattern(P) on an expanded P change nothing of what is displayed
\* (elements in the graph, edge endpoints, edge classes, collapse flags),
\* also when P is inside a collapsed ancestor.
C3_Idempotence ==
    [][ /\ (lastOp'.name = "collapsePattern" /\ cyNodes[lastOp'.pattern].isCollapsed)
              => Display(Graph)' = Display(Graph)
        /\ (lastOp'.name = "uncollapsePattern" /\ ~cyNodes[lastOp'.pattern].isCollapsed)
              => Display(Graph)' = Display(Graph) ]_vars

\* C4: a step of collapsePattern(P) or uncollapsePattern(P) leaves the
\* isCollapsed flag of every pattern other than P as it was.
C4_Locality ==
    [][ lastOp'.name \in Toggles
        => \A q \in PatternEles \ {lastOp'.pattern} :
               cyNodes'[q].isCollapsed = cyNodes[q].isCollapsed ]_vars

\* C4's case: collapsePattern(20) has returned with the nested pattern 21
\* collapsed before it, and both flags are set
C4_Witness ==
    /\ lastOp.name = "collapsePattern"
    /\ lastOp.pattern = 20
    /\ lastError = "none"
    /\ 21 \in PatternEles
    /\ cyNodes[21].isCollapsed
    /\ cyNodes[20].isCollapsed

\* the edges with both canonical endpoints among the descendants of p
EdgesWithin(p) ==
    { i \in DOMAIN cyEdges :
        CanonSource(i) \in Descendants(p) /\ CanonTarget(i) \in Descendants(p) }

\* C5 (as the spec states it): after a draw and toggles of patterns in the
\* graph, no descendant and no interior edge of a pattern whose isCollapsed
\* is true is in the graph; and after uncollapsePattern(P) every descendant
\* of P and every edge between descendants of P that no collapsed pattern
\* encloses is in the graph.
C5_InteriorHidden ==
    (DrawnOK /\ visibleOnly) =>
        /\ \A p \in PatternEles :
              cyNodes[p].isCollapsed =>
                  /\ Descendants(p) \cap NodePool(Graph) = {}
                  /\ EdgesWithin(p) \cap EdgePool(Graph) = {}
        /\ lastOp.name = "uncollapsePattern" =>
              /\ \A i \in Descendants(lastOp.pattern) :
                    CollapsedEnclosing(i) = {} => i \in NodePool(Graph)
              /\ \A i \in EdgesWithin(lastOp.pattern) :
                    (CollapsedEnclosing(CanonSource(i)) = {}
                        /\ CollapsedEnclosing(CanonTarget(i)) = {})
                    => i \in EdgePool(Graph)

\* C6 (as the spec states it): after initPatterns and ever after, the
\* incoming map of every pattern P holds exactly the edges whose target is a
\* descendant of P and whose source is not, its outgoing map exactly those
\* whose source is a descendant and whose target is not, each with the
\* edge's source and target as drawn.
C6_EdgeMaps ==
    DrawnOK =>
        \A p \in PatternEles :
            /\ Keys(cyNodes[p].incomingEdgeMap) =
                  { i \in DOMAIN cyEdges : /\ CanonTarget(i) \in Descendants(p)
                                           /\ CanonSource(i) \notin Descendants(p) }
            /\ Keys(cyNodes[p].outgoingEdgeMap) =
                  { i \in DOMAIN cyEdges : /\ CanonSource(i) \in Descendants(p)
                                           /\ CanonTarget(i) \notin Descendants(p) }
            /\ \A m \in SeqToSet(cyNodes[p].incomingEdgeMap)
                          \cup SeqToSet(cyNodes[p].outgoingEdgeMap) :
                  m.st = << CanonSource(m.id), CanonTarget(m.id) >>

\* the members of pattern p: the elements whose parent is p
Members(p) == { i \in DOMAIN cyNodes : ParentInData(i) = p }

C8_InteriorSet ==
    DrawnOK =>
        \A p \in PatternEles :
            /\ cyNodes[p].interiorNodes = Descendants(p)
            /\ cyNodes[p].interiorEdges = EdgesWithin(p)
            /\ \A i \in DOMAIN cyEdges :
                  (CanonSource(i) \in Descendants(p) \/ CanonTarget(i) \in Descendants(p))
                  => Cardinality({ w \in {1, 2, 3} :
                        \/ w = 1 /\ i \in Keys(cyNodes[p].incomingEdgeMap)
                        \/ w = 2 /\ i \in Keys(cyNodes[p].outgoingEdgeMap)
                        \/ w = 3 /\ i \in cyNodes[p].interiorEdges }) = 1

\* node i of the graph is a pattern whose isCollapsed is true
IsCollapsedPattern(i) == cyNodes[i].isPattern /\ cyNodes[i].isCollapsed

\* C9: every edge in the graph has the classes not_using_ports and
\* basicbezier exactly when its active source or its active target is a
\* collapsed pattern; an edge that has neither endpoint on a collapsed
\* pattern is drawn as it was first rendered: unbundledbezier when it has
\* control point data, basicbezier when it has none.
C9_Simplified ==
    \A i \in EdgePool(Graph) :
        /\ ({"basicbezier", "not_using_ports"} \subseteq cyEdges[i].classes)
            <=> (IsCollapsedPattern(cyEdges[i].source)
                    \/ IsCollapsedPattern(cyEdges[i].target))
        /\ "not_using_ports" \notin cyEdges[i].classes
            => cyEdges[i].classes = IF cyEdges[i].cpd
                                    THEN {"unbundledbezier", "oriented"}
                                    ELSE {"basicbezier", "oriented"}

\* C9's case: collapsePattern(10) and then uncollapsePattern(10) have
\* returned while pattern 11 is collapsed: the edge from node 2 into pattern 11 stays simplified, the
\* edge from node 5 to node 1 has its curve back
C9_Witness ==
    /\ lastOp.name = "uncollapsePattern"
    /\ lastOp.pattern = 10
    /\ lastError = "none"
    /\ trip.stage = "restored"
    /\ 11 \in PatternEles
    /\ cyNodes[11].isCollapsed
    /\ << 2, 3, 1 >> \in EdgePool(Graph)
    /\ cyEdges[<< 2, 3, 1 >>].source = 2
    /\ cyEdges[<< 2, 3, 1 >>].target = 11
    /\ "not_using_ports" \in cyEdges[<< 2, 3, 1 >>].classes
    /\ << 5, 1, 1 >> \in EdgePool(Graph)
    /\ cyEdges[<< 5, 1, 1 >>].cpd
    /\ "unbundledbezier" \in cyEdges[<< 5, 1, 1 >>].classes
    /\ "not_using_ports" \notin cyEdges[<< 5, 1, 1 >>].classes

\* C10 (as the spec states it): a collapsePattern or uncollapsePattern call
\* that throws leaves what is displayed as it was: the elements in the
\* graph, the endpoints and classes of the edges, the isCollapsed flags.
C10_NoPartialToggle ==
    [][ (lastOp'.name \in Toggles /\ lastError' # "none")
        => Display(Graph)' = Display(Graph) ]_vars

\* -------------------------------------------------------------- claims 11-20
RankGetters ==
    { "getPatternsInComponent", "getNodesInComponent", "getEdgesInComponent",
      "getComponentBoundingBox" }

\* what a getter reads of a component
Slot(cmp, method) ==
    CASE method = "getPatternsInComponent" -> cmp.patts
      [] method = "getNodesInComponent" -> cmp.nodes
      [] method = "getEdgesInComponent" -> cmp.edges
      [] method = "getComponentBoundingBox" -> cmp.bb

\* r is an integer with 1 <= r <= the number of components
ValidRank(r) == r.isInteger /\ 1 <= r.floor /\ r.floor <= Len(HolderData.components)

\* C11: validateComponentRank(r) returns true exactly when r is an integer
\* with 1 <= r <= the number of components; for r zero, negative or not an
\* integer it throws the "isn't a positive integer" error and for an integer
\* above the count the "too large" error; each of the four getters returns
\* the data of component r - 1 when r is valid and throws otherwise.
C11_RankValidation ==
    /\ called.method = "validateComponentRank" =>
        /\ (called.result = Returned(TRUE)) <=> ValidRank(called.arg)
        /\ (~called.arg.isInteger \/ called.arg.floor <= 0)
               => called.result = Threw("SizeRankNotPositiveInteger")
        /\ (called.arg.isInteger /\ called.arg.floor > Len(HolderData.components))
               => called.result = Threw("SizeRankTooLarge")
    /\ called.method \in RankGetters =>
        IF ValidRank(called.arg)
        THEN called.result =
                 Returned(Slot(HolderData.components[called.arg.floor], called.method))
        ELSE called.result.threw
                 \in {"SizeRankTooLarge", "SizeRankNotPositiveInteger"}

\* a getter asked for a number between two valid ranks, and the validator
\* asked for one
C11_Witness ==
    /\ called.method \in RankGetters \cup {"validateComponentRank"}
    /\ called.arg = Between(1)
    /\ Len(HolderData.components) >= 2
    /\ called.result.threw = "SizeRankNotPositiveInteger"

\* the last call was a draw that threw while drawing a component
DrawFailed == lastOp.name = "draw" /\ lastError # "none"

\* the position in componentsToDraw of the component draw threw at
FailedAt(componentsToDraw) ==
    CHOOSE k \in 1..Len(componentsToDraw) :
        /\ DrawResult[SubSeq(componentsToDraw, 1, k)].err # "none"
        /\ \A j \in 1..(k - 1) :
               DrawResult[SubSeq(componentsToDraw, 1, j)].err = "none"

\* the ids of the patterns and nodes the data holds for a size rank (none
\* for a rank that is not valid)
IdsOfComponent(sizeRank) ==
    IF validateComponentRank(data, sizeRank).threw # "none" THEN {}
    ELSE { data.components[sizeRank.floor].patts[i].pattern_id :
               i \in DOMAIN data.components[sizeRank.floor].patts }
         \cup DOMAIN data.components[sizeRank.floor].nodes

\* C12: when draw fails with a data error (an invalid rank, an invalid node
\* orientation, a missing edge endpoint), no element of the component it
\* failed at is left in the graph, the counters count none of the elements
\* added for that component, and no batch is left open.
C12_NoPartialDraw ==
    DrawFailed =>
        LET k == FailedAt(lastOp.componentsToDraw)
            before == draw(SubSeq(lastOp.componentsToDraw, 1, k - 1), data)
        IN  /\ IdsOfComponent(lastOp.componentsToDraw[k]) \cap DOMAIN cyNodes = {}
            /\ numDrawnPatterns = before.numDrawnPatterns
            /\ numDrawnNodes = before.numDrawnNodes
            /\ numDrawnEdges = before.numDrawnEdges
            /\ batchDepth = 0

\* componentsToDraw holds a value twice
HasDuplicates(componentsToDraw) ==
    \E i, j \in DOMAIN componentsToDraw :
        i # j /\ componentsToDraw[i] = componentsToDraw[j]

\* componentsToDraw holds a number that is not a valid size rank of the data
HasInvalidRank(componentsToDraw) ==
    \E i \in DOMAIN componentsToDraw :
        validateComponentRank(data, componentsToDraw[i]).threw # "none"

\* C13: draw throws an Error when componentsToDraw holds a value twice or
\* holds a number that is not a valid size rank.
C13_DrawRejects ==
    ( /\ lastOp.name = "draw"
      /\ \/ HasDuplicates(lastOp.componentsToDraw)
         \/ HasInvalidRank(lastOp.componentsToDraw) )
        => lastError # "none"

\* C14: renderNode throws 'Invalid node orientation' for every orientation
\* other than "+" and "-", and then adds no node and leaves numDrawnNodes as
\* it was; a node of orientation "+" gets the class rightdir and one of
\* orientation "-" the class leftdir, never both.
C14_Orientation ==
    called.method = "renderNode" =>
        LET orientation == called.arg.nodeVals.orientation
            before == called.arg.d
            after == called.result
            nodeID == called.arg.nodeID
        IN  IF orientation \notin {"+", "-"}
            THEN /\ after.err = "InvalidNodeOrientation"
                 /\ after.g = before.g
                 /\ after.numDrawnNodes = before.numDrawnNodes
            ELSE /\ after.err = "none"
                 /\ nodeID \in NodePool(after.g)
                 /\ after.numDrawnNodes = before.numDrawnNodes + 1
                 /\ after.g.n[nodeID].classes \cap {"rightdir", "leftdir"} =
                        IF orientation = "+" THEN {"rightdir"} ELSE {"leftdir"}

\* renderNode threw for a node whose orientation is neither "+" nor "-",
\* called on a Drawer that had drawn nodes before
C14_Witness ==
    /\ called.method = "renderNode"
    /\ called.arg.nodeVals.orientation = "+-"
    /\ called.arg.d.numDrawnNodes > 0
    /\ called.result.err = "InvalidNodeOrientation"

\* the place of element i in the order the elements were added
AddedAt(i) == CHOOSE k \in DOMAIN cyNodeSeq : cyNodeSeq[k] = i

\* C15: the pattern list of every component holds a parent before its
\* children, so each pattern is added after the pattern its parent_id names
\* and each node after its parent pattern; after draw the compound parent of
\* every pattern and node is its parent_id.
C15_ParentFirst ==
    lastOp.name = "draw" =>
        \A i \in DOMAIN cyNodes :
            /\ cyNodes[i].parent = ParentInData(i)
            /\ ParentInData(i) # NULL =>
                   /\ ParentInData(i) \in DOMAIN cyNodes
                   /\ AddedAt(ParentInData(i)) < AddedAt(i)

\* a draw that added a pattern nested in another pattern, with nodes in both
C15_Witness ==
    /\ lastOp.name = "draw"
    /\ lastError = "none"
    /\ \E i, j, k \in DOMAIN cyNodes :
        /\ cyNodes[i].isPattern /\ cyNodes[j].isPattern /\ ~cyNodes[k].isPattern
        /\ cyNodes[j].parent = i
        /\ cyNodes[k].parent = j
        /\ AddedAt(i) < AddedAt(j) /\ AddedAt(j) < AddedAt(k)

\* the components of the holder that were laid out
LaidOut == { c \in DOMAIN HolderData.components : ~HolderData.components[c].skipped }

\* the records the laid-out components store for node id i
NodeRecords(i) ==
    { HolderData.components[c].nodes[i] :
        c \in { k \in LaidOut : i \in DOMAIN HolderData.components[k].nodes } }

\* the records the laid-out components store for the pattern of id n
PatternRecords(n) ==
    { v \in UNION { SeqToSet(HolderData.components[c].patts) : c \in LaidOut } :
        v.pattern_id = n }

RECURSIVE NumberWritten(_)
\* the number a string of decimal digits writes: its last digit, and ten
\* times what the digits before it write
NumberWritten(str) ==
    IF str = <<>> THEN 0
    ELSE 10 * NumberWritten(SubSeq(str, 1, Len(str) - 1)) + DigitValue[str[Len(str)]]

\* C16: getNodeInfo(id) and getNodeName(id) return the record, resp. the
\* name, stored for the id in a laid-out component, and throw a not-found
\* error when no laid-out component holds the id; getPatternInfo does the
\* same for a pattern id and throws a distinct error for an id that is not
\* a nonnegative integer; none returns without a result, none returns data
\* of a skipped component.
C16_Lookups ==
    /\ called.method = "getNodeInfo" =>
        IF NodeRecords(called.arg) = {}
        THEN called.result = Threw("NodeNotFound")
        ELSE called.result.threw = "none" /\ called.result.value \in NodeRecords(called.arg)
    /\ called.method = "getNodeName" =>
        IF NodeRecords(called.arg) = {}
        THEN called.result = Threw("NodeNotFound")
        ELSE /\ called.result.threw = "none"
             /\ called.result.value \in { v.name : v \in NodeRecords(called.arg) }
    /\ called.method = "getPatternInfo" =>
        IF called.arg = <<>> \/ \E k \in DOMAIN called.arg : called.arg[k] \notin Digits
        THEN called.result = Threw("PatternIDNotNonnegativeInteger")
        ELSE IF PatternRecords(NumberWritten(called.arg)) = {}
        THEN called.result = Threw("PatternNotFound")
        ELSE /\ called.result.threw = "none"
             /\ called.result.value \in PatternRecords(NumberWritten(called.arg))

\* a lookup of a node that only a skipped component holds, which threw
C16_Witness ==
    /\ called.method \in {"getNodeInfo", "getNodeName"}
    /\ called.arg = 61
    /\ \E c \in DOMAIN HolderData.components :
           HolderData.components[c].skipped /\ 61 \in DOMAIN HolderData.components[c].nodes
    /\ called.result = Threw("NodeNotFound")

\* C17: smallestViewableComponent returns the smallest rank, counted from 1,
\* of a component that is not skipped, and throws exactly when every
\* component is skipped or there is none; the rank it returns passes
\* validateComponentRank and is the first element of
\* getAllLaidOutComponentRanks(), which lists exactly the ranks that are not
\* skipped, in ascending order.
C17_SmallestViewable ==
    /\ called.method = "smallestViewableComponent" =>
        IF LaidOut = {}
        THEN called.result = Threw("NoComponentsLaidOut")
        ELSE /\ called.result.threw = "none"
             /\ called.result.value \in LaidOut
             /\ \A c \in LaidOut : called.result.value <= c
             /\ validateComponentRank(HolderData, Whole(called.result.value)) = Returned(TRUE)
             /\ called.result.value = getAllLaidOutComponentRanks(HolderData)[1]
    /\ called.method = "getAllLaidOutComponentRanks" =>
        /\ called.result.threw = "none"
        /\ SeqToSet(called.result.value) = LaidOut
        /\ \A k \in 1..(Len(called.result.value) - 1) :
               called.result.value[k] < called.result.value[k + 1]

\* smallestViewableComponent called on data whose first component is
\* skipped and whose second is not
C17_Witness ==
    /\ called.method = "smallestViewableComponent"
    /\ Len(HolderData.components) >= 2
    /\ HolderData.components[1].skipped
    /\ ~HolderData.components[2].skipped
    /\ called.result = Returned(2)

\* the ranks of the laid-out components that have a node of the name
RanksWithName(name) ==
    { c \in LaidOut :
        name \in { HolderData.components[c].nodes[i].name :
                     i \in DOMAIN HolderData.components[c].nodes } }

\* C18: findComponentContainingNodeName(name) returns -1 if and only if no
\* laid-out component has a node of exactly that name; otherwise it returns
\* the rank, counted from 1, of the first laid-out component that has one,
\* a value in [1, numComponents()].
C18_FindByName ==
    called.method = "findComponentContainingNodeName" =>
        /\ (called.result.value = 0 - 1) <=> (RanksWithName(called.arg) = {})
        /\ RanksWithName(called.arg) # {} =>
            /\ called.result.value \in RanksWithName(called.arg)
            /\ \A c \in RanksWithName(called.arg) : called.result.value <= c
            /\ 1 <= called.result.value
            /\ called.result.value <= numComponents(HolderData)

\* a search for a name that two laid-out components hold, the first of them
\* behind a skipped component that holds other nodes
C18_Witness ==
    /\ called.method = "findComponentContainingNodeName"
    /\ called.arg = "ctg_a"
    /\ Cardinality(RanksWithName("ctg_a")) = 2
    /\ HolderData.components[1].skipped
    /\ HolderData.components[1].nodes # <<>>
    /\ called.result.value = 2

\* the control points of the call: [ctrlPts[p], dy - ctrlPts[p + 1]]
CurrPts ==
    { << called.arg.ctrlPts[2 * k - 1], called.arg.dy - called.arg.ctrlPts[2 * k] >> :
        k \in 1..(Len(called.arg.ctrlPts) \div 2) }

\* the perpendicular distance of currPt to the line through srcPos and
\* tgtPos is below epsilon
DistanceBelow(currPt, srcPos, tgtPos, epsilon) ==
    LET ddx == tgtPos[1] - srcPos[1]
        ddy == tgtPos[2] - srcPos[2]
        cross == ddx * (srcPos[2] - currPt[2]) - (srcPos[1] - currPt[1]) * ddy
    IN  cross * cross < epsilon * epsilon * (ddx * ddx + ddy * ddy)

\* C19: convertCtrlPtsToDistsAndWeights reports an edge as straight
\* (complex = false) exactly when the perpendicular distance of every
\* control point to the line from source to target is below
\* CTRL_PT_DIST_EPSILON, and as complex otherwise, a distance equal to the
\* threshold included.
C19_Straightness ==
    called.method = "convertCtrlPtsToDistsAndWeights" =>
        ( ~called.result.complex
            <=> \A currPt \in CurrPts :
                    DistanceBelow(currPt, called.arg.srcPos, called.arg.tgtPos,
                                  CTRL_PT_DIST_EPSILON) )

\* C20: no weight written out by convertCtrlPtsToDistsAndWeights is exactly
\* 0 or exactly 1, for a control point at any place in the sequence.
C20_WeightsClamped ==
    called.method = "convertCtrlPtsToDistsAndWeights" =>
        \A k \in DOMAIN called.result.weights :
            called.result.weights[k] \notin {0, 100}

\* ------------------------------------------------------------------- C21
\* the top-level patterns in the graph whose isCollapsed flag is `flag`
TopLevelWith(flag) ==
    { p \in PatternEles : /\ ~cyNodes[p].removed
                          /\ cyNodes[p].parent = NULL
                          /\ cyNodes[p].isCollapsed = flag }

\* the step is one call of the bulk operation `name`, which moves every
\* pattern of `due` to the flag `target`: the patterns it toggles are those
\* of `due`, each once, every one of them ends with the flag `target`, and
\* the flag of every other pattern (descendants included) is left alone
BulkApplies(name, due, target) ==
    lastOp'.name = name =>
        /\ SeqToSet(called'.result) = due
        /\ Len(called'.result) = Cardinality(due)
        /\ \A p \in due : cyNodes'[p].isCollapsed = target
        /\ \A p \in PatternEles \ due :
               cyNodes'[p].isCollapsed = cyNodes[p].isCollapsed

\* C21: collapseAll() applies collapse to exactly the top-level patterns
\* that are expanded, and expandAll() applies uncollapse to exactly those
\* that are collapsed: patterns already in the target state are skipped, no
\* pattern is toggled more than once in a call, and the flags of the
\* descendants are not touched.
C21_BulkExact ==
    [][ /\ BulkApplies("collapseAll", TopLevelWith(FALSE), TRUE)
        /\ BulkApplies("expandAll", TopLevelWith(TRUE), FALSE) ]_vars

\* ------------------------------------------------------------------- C22
\* C22: collapseAll() followed by expandAll() is a no-op on the visible set:
\* the nodes, patterns and edges in the graph and every edge's endpoints
\* are what they were before the two calls.
C22_BulkRoundTrip == trip.stage = "allRestored" => View(Graph) = trip.pre

RECURSIVE BelowWithin(_, _, _)
\* the patterns reached from the set S of patterns by going from a pattern
\* to a pattern it lists, in at most n steps
BelowWithin(members, S, n) ==
    IF n = 0 THEN S
    ELSE BelowWithin(members,
                     S \cup UNION { members[p] \cap DOMAIN members : p \in S },
                     n - 1)

\* the patterns nested in pattern p, at any depth
Below(members, p) ==
    BelowWithin(members, members[p] \cap DOMAIN members, Cardinality(DOMAIN members))

\* containment is cyclic: some pattern is nested in itself
Cyclic(members) == \E p \in DOMAIN members : p \in Below(members, p)

\* a node or pattern is claimed by two patterns neither of which is nested
\* in the other
TwoUnrelatedParents(members) ==
    \E x \in DOMAIN members \cup {0} : \E p, q \in Claimants(members, x) :
        p # q /\ p \notin Below(members, q) /\ q \notin Below(members, p)

\* C24: the hierarchy builder fails with a data error, and emits no order,
\* whenever containment is cyclic or a node or pattern is claimed by two
\* unrelated parents; whenever it succeeds, the order it emits holds every
\* pattern once and every parent before all of its descendants.
C24_HierarchyOrder ==
    called.method = "buildHierarchy" =>
        /\ (Cyclic(called.arg) \/ TwoUnrelatedParents(called.arg))
            => called.result = Threw("DataError")
        /\ called.result.threw = "none" =>
            /\ Len(called.result.value.order) = Cardinality(DOMAIN called.arg)
            /\ SeqToSet(called.result.value.order) = DOMAIN called.arg
            /\ \A p \in DOMAIN called.arg : \A q \in Below(called.arg, p) :
                   PlaceIn(called.result.value.order, p)
                       < PlaceIn(called.result.value.order, q)

\* the builder has emitted an order for three patterns nested in one
\* another, the innermost listed by both of the others
C24_Witness ==
    /\ called.method = "buildHierarchy"
    /\ called.result.threw = "none"
    /\ \E p, q, r \in DOMAIN called.arg :
           /\ q \in called.arg[p]
           /\ r \in called.arg[q]
           /\ r \in called.arg[p]

\* ------------------------------------------------------------------- C26
\* the isCollapsed flag of pattern p after the step differs from the one
\* before it (a pattern that a draw creates starts from no flag at all)
FlagChanged(p) ==
    p \in PatternEles => cyNodes'[p].isCollapsed # cyNodes[p].isCollapsed

\* C26: after a draw every pattern has isCollapsed = false, whatever the
\* flags were before; between draws the flag of a pattern changes only
\* through collapsePattern on that pattern (to true) or uncollapsePattern on
\* that pattern (to false).
C26_FlagLifecycle ==
    [][ /\ lastOp'.name = "draw" =>
              \A p \in DOMAIN cyNodes' :
                  cyNodes'[p].isPattern => ~cyNodes'[p].isCollapsed
        /\ lastOp'.name # "draw" =>
              \A p \in PatternEles :
                  FlagChanged(p) =>
                      /\ lastOp'.pattern = p
                      /\ \/ /\ lastOp'.name = "collapsePattern"
                            /\ cyNodes'[p].isCollapsed
                         \/ /\ lastOp'.name = "uncollapsePattern"
                            /\ ~cyNodes'[p].isCollapsed ]_vars

\* a pattern has just been uncollapsed while another one is still collapsed
C26_Witness ==
    /\ DrawnOK
    /\ lastOp.name = "uncollapsePattern"
    /\ lastError = "none"
    /\ ~cyNodes[lastOp.pattern].isCollapsed
    /\ \E q \in PatternEles : cyNodes[q].isCollapsed

\* ------------------------------------------------------------------- C27
\* C27: draw, collapsePattern and uncollapsePattern each close the one batch
\* they open before control goes back to the event loop: whenever no
\* operation is running, the batch depth of this.cy is zero. (Each operation
\* is one step: none runs while another is in progress.)
C27_BatchClosed == batchDepth = 0

\* ------------------------------------------------------------------- C28
RECURSIVE SumSeq(_)
SumSeq(s) == IF s = << >> THEN 0 ELSE Head(s) + SumSeq(Tail(s))

\* the components a draw that went through was asked for
Requested(componentsToDraw) ==
    SortedSeq({ componentsToDraw[k].floor : k \in DOMAIN componentsToDraw })

\* the numbers of patterns, nodes and edges the data holds for them
NumPatternsOf(ranks) ==
    SumSeq([ k \in DOMAIN ranks |-> Len(data.components[ranks[k]].patts) ])

NumNodesOf(ranks) ==
    SumSeq([ k \in DOMAIN ranks |->
               Cardinality(DOMAIN data.components[ranks[k]].nodes) ])

NumEdgesOf(ranks) ==
    SumSeq([ k \in DOMAIN ranks |-> Len(EdgePairs(data.components[ranks[k]].edges)) ])

\* the three counters of the Drawer
Counters == << numDrawnPatterns, numDrawnNodes, numDrawnEdges >>

\* C28: the three counters are the numbers of patterns, nodes and edges of
\* exactly the components requested in the most recent successful draw: a
\* draw that goes through leaves them at the numbers of its own components
\* (what an earlier draw counted is reset first), and neither a toggle nor
\* a draw that fails after a successful one changes them.
C28_Counters ==
    [][ /\ (lastOp'.name = "draw" /\ lastError' = "none") =>
              Counters' =
                  << NumPatternsOf(Requested(lastOp'.componentsToDraw)),
                     NumNodesOf(Requested(lastOp'.componentsToDraw)),
                     NumEdgesOf(Requested(lastOp'.componentsToDraw)) >>
        /\ lastOp'.name \in Toggles => Counters' = Counters
        /\ ( /\ lastOp.name = "draw" /\ lastError = "none"
             /\ lastOp'.name = "draw" /\ lastError' # "none" ) =>
              Counters' = Counters ]_vars

\* ------------------------------------------------------------------- C29
\* C29: every edge carries exactly one of the classes basicbezier and
\* unbundledbezier; it has unbundledbezier only if it has cpd data, so an
\* edge drawn without cpd is basicbezier through every collapse and
\* uncollapse; and no edge has unbundledbezier together with
\* not_using_ports.
C29_EdgeClasses ==
    \A i \in DOMAIN cyEdges :
        /\ Cardinality(cyEdges[i].classes
                         \cap {"unbundledbezier", "basicbezier"}) = 1
        /\ "unbundledbezier" \in cyEdges[i].classes => cyEdges[i].cpd
        /\ ~cyEdges[i].cpd => "basicbezier" \in cyEdges[i].classes
        /\ ~({"unbundledbezier", "not_using_ports"} \subseteq cyEdges[i].classes)

\* after a collapse and an uncollapse, an edge with cpd is simplified, one
\* with cpd has its curve, and one without cpd has lost not_using_ports
C29_Witness ==
    /\ DrawnOK
    /\ lastOp.name = "uncollapsePattern"
    /\ lastError = "none"
    /\ \E i \in DOMAIN cyEdges :
           /\ cyEdges[i].cpd
           /\ {"basicbezier", "not_using_ports"} \subseteq cyEdges[i].classes
    /\ \E i \in DOMAIN cyEdges :
           cyEdges[i].cpd /\ "unbundledbezier" \in cyEdges[i].classes
    /\ \E i \in DOMAIN cyEdges :
           /\ ~cyEdges[i].cpd
           /\ i \in Keys(cyNodes[lastOp.pattern].incomingEdgeMap)
                      \cup Keys(cyNodes[lastOp.pattern].outgoingEdgeMap)
           /\ "not_using_ports" \notin cyEdges[i].classes

\* ------------------------------------------------------------------- C30
\* the laid-out components that have srcID among their edge sources
SourceRanks(srcID) ==
    { c \in LaidOut : srcID \in DOMAIN HolderData.components[c].edges }

\* the records the laid-out components store for the edge srcID -> tgtID
EdgeRecords(srcID, tgtID) ==
    { HolderData.components[c].edges[srcID][tgtID] :
        c \in { k \in SourceRanks(srcID) :
                  tgtID \in DOMAIN HolderData.components[k].edges[srcID] } }

FirstSourceRank(srcID) ==
    CHOOSE c \in SourceRanks(srcID) : \A o \in SourceRanks(srcID) : c <= o

====
